---- MODULE Spec2Model ----
(***************************************************************************)
(* Expense tracker: the transaction store and the two report generators    *)
(* (getMonthlyReport, getCategoryReport) computed over it.                  *)
(*                                                                         *)
(* Numbers.  A JavaScript number is a double, written by its value (sign,   *)
(* whole part, binary digits after the point); sums and differences round  *)
(* to nearest, ties to even.  The numeric(15,2) column holds an amount in   *)
(* hundredths.  ToNumeric and ParseFloat convert between the two.  A        *)
(* JavaScript quotient is kept as the fraction it rounds.                   *)
(*                                                                         *)
(* Time.  A Date is a time value in local time, written as a day number    *)
(* (days since 1970-01-01) and the milliseconds within that day; MakeDay,  *)
(* MakeTime, getFullYear and getMonth follow ECMAScript.                   *)
(*                                                                         *)
(* Calls.  A handler is an async function: each statement it awaits is one *)
(* step, and between two of its steps other calls take theirs.  A call     *)
(* between two of its awaits is held in creating, updating or inflight.    *)
(***************************************************************************)
EXTENDS Integers, Sequences, FiniteSets, Bags, TLC

\* ------------------------------------------------------------------------
\* Bounds of the model
\* ------------------------------------------------------------------------

\* Number of values the transactions id sequence may hand out.
MaxTx == 2

\* Number of updateTransaction calls the caller makes for one stored
\* transaction.
MaxUpdates == 2

\* Number of rows createVendor, createPool and createBudget each add.
MaxCatalog == 1

\* ------------------------------------------------------------------------
\* Values
\* ------------------------------------------------------------------------

\* A nullable column or field holds the empty set for null and {v} for the
\* value v: 0 and the empty string are values, not null.
NULL == {}

Some(v) == {v}

\* x || null on a number: 0 is taken for null.
NumberOrNull(x) == IF x = Some(0) THEN NULL ELSE x

\* x || null on a string: the empty string is taken for null.
StringOrNull(x) == IF x = Some("") THEN NULL ELSE x

TransactionTypes == {"income", "expense", "credit", "payment"}

CategoryTypes == {"income", "expense", "credit"}

\* ------------------------------------------------------------------------
\* Dates (ECMAScript Date in local time)
\* ------------------------------------------------------------------------

msPerDay == 24 * 60 * 60 * 1000

DaysInYear(y) ==
    IF y % 4 # 0 THEN 365
    ELSE IF y % 100 # 0 THEN 366
    ELSE IF y % 400 # 0 THEN 365
    ELSE 366

DayFromYear(y) ==
    365 * (y - 1970) + ((y - 1969) \div 4) - ((y - 1901) \div 100)
        + ((y - 1601) \div 400)

\* Days of a common year that precede each month, and the whole year.
CumulativeDays == <<0, 31, 59, 90, 120, 151, 181, 212, 243, 273, 304, 334, 365>>

\* Days of the year that precede month index mn (0 = January).
DaysBeforeMonth(y, mn) ==
    CumulativeDays[mn + 1] + (IF mn >= 2 THEN DaysInYear(y) - 365 ELSE 0)

\* MakeDay without the carry of the month index into the year.
MakeDay_NoCarry(year, month, date) ==
    DayFromYear(year) + DaysBeforeMonth(year, month % 12) + date - 1

\* MakeDay(year, month, date): month is an index that may lie outside 0..11
\* and date may lie outside the month; both roll over.
MakeDay(year, month, date) ==
    LET ym == year + (month \div 12)
        mn == month % 12
    IN  DayFromYear(ym) + DaysBeforeMonth(ym, mn) + date - 1

MakeTime(hour, min, sec, ms) ==
    hour * 60 * 60 * 1000 + min * 60 * 1000 + sec * 1000 + ms

\* new Date(year, monthIndex, day, hours, minutes, seconds, ms)
NewDate(year, monthIndex, day, hours, minutes, seconds, ms) ==
    LET t == MakeTime(hours, minutes, seconds, ms)
    IN  [day |-> MakeDay(year, monthIndex, day) + (t \div msPerDay),
         ms  |-> t % msPerDay]

\* Years the model's dates may fall in.
YearRange == 2020 .. 2030

\* The day number of 1 January of each year, and of the year after the last.
YearStart == [y \in YearRange \cup {2031} |-> DayFromYear(y)]

\* date.getFullYear()
GetFullYear(date) ==
    CHOOSE y \in YearRange :
        YearStart[y] <= date.day /\ date.day < YearStart[y + 1]

\* The day number of the first day of each month of each year, and of the
\* month after December.
MonthStart ==
    [y \in YearRange |-> [mn \in 0 .. 12 |-> YearStart[y] + DaysBeforeMonth(y, mn)]]

\* date.getMonth(): 0 = January
GetMonth(date) ==
    LET starts == MonthStart[GetFullYear(date)]
    IN  CHOOSE mn \in 0 .. 11 :
            starts[mn] <= date.day /\ date.day < starts[mn + 1]

\* SQL gte / lte on a timestamp column
Gte(a, b) == a.day > b.day \/ (a.day = b.day /\ a.ms >= b.ms)

Lte(a, b) == a.day < b.day \/ (a.day = b.day /\ a.ms <= b.ms)

\* ------------------------------------------------------------------------
\* Numbers
\* ------------------------------------------------------------------------
\* A JavaScript number is a double.  It is written by its value: the sign,
\* the whole part and the binary digits after the point, the last of them 1.
\* A numeric(15,2) column is written in hundredths.  The whole parts of the
\* model's numbers stay below 2^21.

\* The double of a whole number.
Number(n) ==
    [neg |-> n < 0, int |-> IF n < 0 THEN 0 - n ELSE n, frac |-> << >>]

IsWhole(x) == x.frac = << >>

\* The value of a double that is a whole number.
WholeValue(x) == IF x.neg THEN 0 - x.int ELSE x.int

\* The significand of a double holds 53 binary digits.
Precision == 53

\* Binary digits of a decimal fraction computed before it is rounded.
FractionDigits == 64

Zeros(n) == [i \in 1 .. n |-> 0]

BitLength(n) ==
    CHOOSE len \in 0 .. 30 : (2 ^ len) > n /\ (len = 0 \/ 2 ^ (len - 1) <= n)

\* The binary digits of a whole number, the most significant first.
BitsOfNat(n) ==
    LET len == BitLength(n)
    IN  [i \in 1 .. len |-> (n \div (2 ^ (len - i))) % 2]

RECURSIVE NatOfBits(_)
\* The whole number a numeral of at most 30 digits stands for.
NatOfBits(s) ==
    IF Len(s) = 0 THEN 0
    ELSE IF Len(s) = 1 THEN s[1]
    ELSE LET h == Len(s) \div 2
         IN  NatOfBits(SubSeq(s, 1, h)) * (2 ^ (Len(s) - h))
                 + NatOfBits(SubSeq(s, h + 1, Len(s)))

\* (x * 2^k) % den for k up to 20, within 32 bits for den up to 1000.
ShiftRemainder(x, den, k) == (x * (2 ^ k)) % den

\* What is left of r / den (r < den) after its first k binary digits,
\* times den * 2^k; k up to 80.
FractionRest(r, den, k) ==
    LET k1 == IF k < 20 THEN k ELSE 20
        k2 == IF k - k1 < 20 THEN k - k1 ELSE 20
        k3 == IF k - k1 - k2 < 20 THEN k - k1 - k2 ELSE 20
        k4 == k - k1 - k2 - k3
    IN  ShiftRemainder(ShiftRemainder(ShiftRemainder(ShiftRemainder(
            r, den, k1), den, k2), den, k3), den, k4)

\* The first k binary digits of r / den after the point (r < den).
FractionBits(r, den, k) ==
    [i \in 1 .. k |-> IF 2 * FractionRest(r, den, i - 1) >= den THEN 1 ELSE 0]

\* The numeral without its leading zeros.
StripZeros(s) ==
    IF \A i \in 1 .. Len(s) : s[i] = 0 THEN << >>
    ELSE LET first == CHOOSE i \in 1 .. Len(s) :
                          s[i] = 1 /\ \A j \in 1 .. (i - 1) : s[j] = 0
         IN  SubSeq(s, first, Len(s))

\* The digits after the point without their trailing zeros.
StripTrailingZeros(s) ==
    IF \A i \in 1 .. Len(s) : s[i] = 0 THEN << >>
    ELSE LET last == CHOOSE i \in 1 .. Len(s) :
                         s[i] = 1 /\ \A j \in (i + 1) .. Len(s) : s[j] = 0
         IN  SubSeq(s, 1, last)

\* The carry out of the digits to the right of position i when the numerals
\* a and b of equal length and the carry are added.
CarryInto(a, b, carry, i) ==
    \/ \E j \in (i + 1) .. Len(a) :
          /\ a[j] = 1 /\ b[j] = 1
          /\ \A k \in (i + 1) .. (j - 1) : a[k] + b[k] = 1
    \/ carry = 1 /\ \A k \in (i + 1) .. Len(a) : a[k] + b[k] = 1

\* The sum of two numerals of equal length and a carry: one digit longer.
AddBits(a, b, carry) ==
    [i \in 1 .. (Len(a) + 1) |->
        IF i = 1 THEN (IF CarryInto(a, b, carry, 0) THEN 1 ELSE 0)
        ELSE (a[i - 1] + b[i - 1]
                + (IF CarryInto(a, b, carry, i - 1) THEN 1 ELSE 0)) % 2]

\* The difference a - b of two numerals of equal length, a not below b: the
\* sum of a, the complement of b and 1, without its carry.
SubBits(a, b) == Tail(AddBits(a, [i \in 1 .. Len(b) |-> 1 - b[i]], 1))

\* The numeral a stands for more than the numeral b of equal length.
BitsGreater(a, b) ==
    \E i \in 1 .. Len(a) :
        a[i] = 1 /\ b[i] = 0 /\ \A j \in 1 .. (i - 1) : a[j] = b[j]

\* Round to nearest, ties to even: the Precision digits and the scale of the
\* double nearest to the numeral s (first digit 1) scaled by 2^exp; sticky
\* tells that the exact value lies above the numeral by less than one unit of
\* its last digit.
RoundToDouble(s, exp, sticky) ==
    IF Len(s) <= Precision
    THEN [bits |-> s \o Zeros(Precision - Len(s)),
          exp |-> exp - (Precision - Len(s))]
    ELSE LET keep == SubSeq(s, 1, Precision)
             rest == SubSeq(s, Precision + 1, Len(s))
             scale == exp + Len(rest)
             more == sticky \/ \E i \in 2 .. Len(rest) : rest[i] = 1
             up == rest[1] = 1 /\ (more \/ keep[Precision] = 1)
             next == AddBits(keep, Zeros(Precision), 1)
         IN  IF ~up THEN [bits |-> keep, exp |-> scale]
             ELSE IF next[1] = 1
                  THEN [bits |-> SubSeq(next, 1, Precision), exp |-> scale + 1]
                  ELSE [bits |-> Tail(next), exp |-> scale]

\* The number with the given sign whose magnitude is the numeral s scaled by
\* 2^exp.
FromDigits(neg, s, exp) ==
    IF \A i \in 1 .. Len(s) : s[i] = 0 THEN Number(0)
    ELSE IF exp >= 0
    THEN [neg |-> neg, int |-> NatOfBits(StripZeros(s)) * (2 ^ exp),
          frac |-> << >>]
    ELSE LET padded == Zeros((0 - exp) - Len(s)) \o s
             point == Len(padded) + exp
         IN  [neg |-> neg,
              int |-> NatOfBits(StripZeros(SubSeq(padded, 1, point))),
              frac |-> StripTrailingZeros(SubSeq(padded, point + 1,
                                                 Len(padded)))]

\* The double nearest to the numeral s scaled by 2^exp, with the given sign.
Rounded(neg, s, exp, sticky) ==
    LET d == RoundToDouble(StripZeros(s), exp, sticky)
    IN  FromDigits(neg, d.bits, d.exp)

\* The double nearest to m / den, m and den whole and den 100 or 1000: what
\* parseFloat makes of a decimal text.
NearestDouble(m, den) ==
    IF m % den = 0 THEN Number(m \div den)
    ELSE Rounded(FALSE,
                 BitsOfNat(m \div den) \o FractionBits(m % den, den, FractionDigits),
                 0 - FractionDigits,
                 FractionRest(m % den, den, FractionDigits) # 0)

\* The number with its sign changed.
Negated(x) == IF x = Number(0) THEN x ELSE [x EXCEPT !.neg = ~x.neg]

\* The doubles nearest to 0.01 .. 0.99, by their hundredths, computed once.
CentsDoubles == [m \in 1 .. 99 |-> NearestDouble(m, 100)]

\* parseFloat of a numeric(15,2) text holding the given hundredths.
ParseFloat(numeric) ==
    LET size == IF numeric < 0 THEN 0 - numeric ELSE numeric
        double == IF size \in DOMAIN CentsDoubles THEN CentsDoubles[size]
                  ELSE NearestDouble(size, 100)
    IN  IF numeric < 0 THEN Negated(double) ELSE double

\* The JavaScript sum a + b.  Whole numbers below 2^53 add without rounding,
\* and so does 0 with any number.
Plus(a, b) ==
    IF IsWhole(a) /\ IsWhole(b) THEN Number(WholeValue(a) + WholeValue(b))
    ELSE IF a = Number(0) THEN b
    ELSE IF b = Number(0) THEN a
    ELSE LET n == IF Len(a.frac) > Len(b.frac) THEN Len(a.frac) ELSE Len(b.frac)
             sa == BitsOfNat(a.int) \o a.frac \o Zeros(n - Len(a.frac))
             sb == BitsOfNat(b.int) \o b.frac \o Zeros(n - Len(b.frac))
             len == IF Len(sa) > Len(sb) THEN Len(sa) ELSE Len(sb)
             pa == Zeros(len - Len(sa)) \o sa
             pb == Zeros(len - Len(sb)) \o sb
         IN  IF a.neg = b.neg
             THEN Rounded(a.neg, AddBits(pa, pb, 0), 0 - n, FALSE)
             ELSE IF BitsGreater(pa, pb)
             THEN Rounded(a.neg, SubBits(pa, pb), 0 - n, FALSE)
             ELSE Rounded(b.neg, SubBits(pb, pa), 0 - n, FALSE)

\* The JavaScript difference a - b.
Minus(a, b) == Plus(a, Negated(b))

\* Digit i after the point.
FractionDigit(x, i) == IF i <= Len(x.frac) THEN x.frac[i] ELSE 0

\* a < b for two numbers that are not negative.
Less(a, b) ==
    \/ a.int < b.int
    \/ /\ a.int = b.int
       /\ \E i \in 1 .. Len(b.frac) :
             /\ FractionDigit(b, i) = 1
             /\ FractionDigit(a, i) = 0
             /\ \A j \in 1 .. (i - 1) : FractionDigit(a, j) = FractionDigit(b, j)

RECURSIVE ChunkCarry(_, _)
\* What the 16-digit chunks from the j-th on carry into the chunk before
\* them when the digits after the point are multiplied by 1000.
ChunkCarry(chunks, j) ==
    IF j > Len(chunks) THEN 0
    ELSE (1000 * chunks[j] + ChunkCarry(chunks, j + 1)) \div 65536

\* The whole number nearest to 1000 times the digits after the point.
Thousandths(frac) ==
    LET m == (Len(frac) + 15) \div 16
        padded == frac \o Zeros(16 * m - Len(frac))
        chunks == [j \in 1 .. m |->
                      NatOfBits(SubSeq(padded, 16 * (j - 1) + 1, 16 * j))]
        top == 1000 * chunks[1] + ChunkCarry(chunks, 2)
    IN  (top \div 65536) + (IF top % 65536 >= 32768 THEN 1 ELSE 0)

\* amount.toString() written to a numeric(15,2) column, in hundredths.
\* toString gives the shortest decimal that parseFloat reads back as the
\* same double, and the column rounds it to two places, a half away from
\* zero.  The double nearest to a number of hundredths is written as those
\* hundredths.  With k3 the whole number of thousandths nearest to the
\* double, the decimal ends in a half only when it is k3 / 1000 itself.
ToNumeric(n) ==
    LET size == [n EXCEPT !.neg = FALSE]
        hundredths ==
            IF IsWhole(n) THEN n.int * 100
            ELSE IF \E m \in DOMAIN CentsDoubles : CentsDoubles[m] = size
            THEN CHOOSE m \in DOMAIN CentsDoubles : CentsDoubles[m] = size
            ELSE LET k3 == n.int * 1000 + Thousandths(n.frac)
                 IN  IF k3 % 10 # 5 THEN (k3 + 5) \div 10
                     ELSE IF Less(size, NearestDouble(k3, 1000))
                     THEN k3 \div 10
                     ELSE (k3 \div 10) + 1
    IN  IF n.neg THEN 0 - hundredths ELSE hundredths

\* The numeral s in chunks of 16 digits, zeros put before it to fill the
\* first chunk.
Chunks(s) ==
    LET m == (Len(s) + 15) \div 16
        padded == Zeros(16 * m - Len(s)) \o s
    IN  [j \in 1 .. m |-> NatOfBits(SubSeq(padded, 16 * (j - 1) + 1, 16 * j))]

\* The numeral the chunks of 16 digits spell.
Unchunked(chunks) ==
    [i \in 1 .. (16 * Len(chunks)) |->
        (chunks[((i - 1) \div 16) + 1] \div (2 ^ (15 - ((i - 1) % 16)))) % 2]

RECURSIVE ChunkRemainder(_, _, _)
\* What the first j chunks leave when the numeral is divided by b, b up to
\* 1000.
ChunkRemainder(chunks, b, j) ==
    IF j = 0 THEN 0
    ELSE (ChunkRemainder(chunks, b, j - 1) * 65536 + chunks[j]) % b

\* The whole part of the numeral s divided by b: long division, a chunk at a
\* time.
QuotientBits(s, b) ==
    LET chunks == Chunks(s)
    IN  Unchunked([j \in 1 .. Len(chunks) |->
            (ChunkRemainder(chunks, b, j - 1) * 65536 + chunks[j]) \div b])

\* The JavaScript quotient with its digits beyond the significand dropped
\* instead of rounded to the nearest double.
Quotient_Truncated(a, b) ==
    IF IsWhole(a) /\ a.int % b = 0 THEN Number(WholeValue(a) \div b)
    ELSE LET s == BitsOfNat(a.int) \o a.frac \o Zeros(FractionDigits)
             q == StripZeros(QuotientBits(s, b))
         IN  FromDigits(a.neg, SubSeq(q, 1, Precision),
                        Len(q) - Precision - Len(a.frac) - FractionDigits)

\* The JavaScript quotient a / b of a number by a count b > 0: the double
\* nearest to the quotient, ties to even.  FractionDigits more digits of the
\* quotient than a has are computed, and what the division leaves beyond them
\* is the sticky digit of the rounding.
Quotient(a, b) ==
    IF IsWhole(a) /\ a.int % b = 0 THEN Number(WholeValue(a) \div b)
    ELSE LET s == BitsOfNat(a.int) \o a.frac \o Zeros(FractionDigits)
             chunks == Chunks(s)
         IN  Rounded(a.neg, QuotientBits(s, b),
                     0 - (Len(a.frac) + FractionDigits),
                     ChunkRemainder(chunks, b, Len(chunks)) # 0)

RECURSIVE ProductCarry(_, _, _)
\* What the chunks from the j-th on carry into the chunk before them when
\* the numeral is multiplied by b, b up to 1000.
ProductCarry(chunks, b, j) ==
    IF j > Len(chunks) THEN 0
    ELSE (b * chunks[j] + ProductCarry(chunks, b, j + 1)) \div 65536

\* The numeral s multiplied by b, without rounding.
ProductBits(s, b) ==
    LET chunks == Chunks(Zeros(16) \o s)
    IN  Unchunked([j \in 1 .. Len(chunks) |->
            (b * chunks[j] + ProductCarry(chunks, b, j + 1)) % 65536])

\* The JavaScript product a * b of a number and a count.
Times(a, b) ==
    Rounded(a.neg, ProductBits(BitsOfNat(a.int) \o a.frac, b),
            0 - Len(a.frac), FALSE)

\* ------------------------------------------------------------------------
\* The store
\* ------------------------------------------------------------------------

VARIABLES
    users,          \* usersTable: the set of user ids
    categories,     \* categoriesTable: id -> [user_id, name, type]
    vendors,        \* vendorsTable: id -> [user_id, name, description]
    pools,          \* poolsTable: id -> [user_id, name, type, description]
    budgets,        \* budgetsTable: id -> [pool_id, target_amount,
                    \* period_start, period_end]
    nextIds,        \* the next values of the id sequences of the vendors,
                    \* pools and budgets tables
    transactions,   \* transactionsTable: id -> row
    nextTxId,       \* the next value of the transactions id sequence
    response,       \* what the call that ended last returned or threw;
                    \* nothing once a call has begun since
    creating,       \* the createTransaction calls between two of their awaits
    updating,       \* the updateTransaction call that is between its awaits
    inflight,       \* the report call that is between two of its awaits
    adding          \* the createVendor call that is between its awaits

\* The tables, those of the catalogue with their id sequences.
tables == <<users, categories, vendors, pools, budgets, nextIds, transactions>>

catalog == <<users, categories, vendors, pools, budgets, nextIds>>

calls == <<creating, updating, inflight, adding>>

vars == <<users, categories, vendors, pools, budgets, nextIds, transactions,
          nextTxId, response, creating, updating, inflight, adding>>

\* No call of the handler is between two of its awaits.
Idle == [op |-> "none"]

\* The caller has awaited every call it made: none is in progress.
Awaited ==
    creating = EmptyBag /\ updating = Idle /\ inflight = Idle /\ adding = Idle

\* The rows the report's tests insert before each case: one user, three
\* categories, a vendor and four pools, all of that user.  No handler of the
\* transaction store writes these tables; createVendor, createPool and
\* createBudget add to them.
SeedUsers == {1}

SeedCategories ==
    ( 1 :> [user_id |-> 1, name |-> "Salary",    type |-> "income"] ) @@
    ( 2 :> [user_id |-> 1, name |-> "Groceries", type |-> "expense"] ) @@
    ( 3 :> [user_id |-> 1, name |-> "Loan",      type |-> "credit"] )

SeedVendors ==
    ( 1 :> [user_id |-> 1, name |-> "Test Vendor",
            description |-> Some("A vendor for testing")] )

SeedPools ==
    ( 1 :> [user_id |-> 1, name |-> "Salary Pool", type |-> "income",
            description |-> Some("Income pool")] ) @@
    ( 2 :> [user_id |-> 1, name |-> "Monthly Expenses", type |-> "expense",
            description |-> Some("Expense pool")] ) @@
    ( 3 :> [user_id |-> 1, name |-> "Credit Pool", type |-> "credit",
            description |-> Some("Credit pool")] ) @@
    ( 4 :> [user_id |-> 1, name |-> "Payment Pool", type |-> "payment",
            description |-> Some("Payment pool")] )

\* The id sequences after the seeding: one vendor, four pools, no budget.
SeedNextIds == [vendors |-> 2, pools |-> 5, budgets |-> 1]

\* The id and the row of the user and of the category that the test of the
\* report's isolation inserts beside the seeded ones.
OtherUser == 2

OtherCategoryId == 4

OtherCategory == [user_id |-> OtherUser, name |-> "Other Income", type |-> "income"]

\* db.insert(usersTable) of the other user; the email is unique.  The
\* statement is no call of a handler: no call has returned after it.
InsertOtherUser ==
    /\ OtherUser \notin users
    /\ users' = users \cup {OtherUser}
    /\ response' = [op |-> "none"]
    /\ UNCHANGED <<categories, vendors, pools, budgets, nextIds, transactions,
                   nextTxId, calls>>

\* db.insert(categoriesTable) of the other user's category; user_id references
\* usersTable.
InsertOtherCategory ==
    /\ OtherUser \in users
    /\ OtherCategoryId \notin DOMAIN categories
    /\ categories' = (OtherCategoryId :> OtherCategory) @@ categories
    /\ response' = [op |-> "none"]
    /\ UNCHANGED <<users, vendors, pools, budgets, nextIds, transactions,
                   nextTxId, calls>>

\* Category names in ascending order of the database's collation.
NamesAscending == <<"Groceries", "Loan", "Other Income", "Salary">>

NameRank(name) == CHOOSE i \in 1 .. Len(NamesAscending) : NamesAscending[i] = name

\* ------------------------------------------------------------------------
\* Inputs
\* ------------------------------------------------------------------------

LastOfDecember == NewDate(2023, 11, 31, 23, 59, 59, 999)

FirstOfJanuary == NewDate(2024, 0, 1, 0, 0, 0, 0)

LastOfJanuary == NewDate(2024, 0, 31, 23, 59, 59, 999)

FirstOfFebruary == NewDate(2024, 1, 1, 0, 0, 0, 0)

TransactionDates == {LastOfDecember, FirstOfJanuary, LastOfJanuary, FirstOfFebruary}

\* A createTransaction input: amount a whole number of the currency;
\* category_id, pool_id and vendor_id NULL or Some(id).
CreateInput(user_id, type, amount, category_id, pool_id, vendor_id, date) ==
    [user_id |-> user_id, pool_id |-> pool_id, type |-> type,
     amount |-> Number(amount),
     description |-> "created", category_id |-> category_id,
     vendor_id |-> vendor_id, associated_person |-> NULL,
     transaction_date |-> date]

\* The createTransaction inputs the reports are asked about: a categorised
\* transaction of each type, the payment with a category it is not checked
\* against; a second expense of the category on the last instant of
\* December, on the last of January and on the first of February; an income
\* of the other user's category; pooled and vendor-carrying transactions
\* without a category; the other user's transactions.
ReportInputs ==
    { CreateInput(1, "expense", 2500, Some(2), NULL, NULL, FirstOfJanuary),
      CreateInput(1, "credit", 2500, Some(3), NULL, NULL, FirstOfJanuary),
      CreateInput(1, "payment", 2500, Some(2), NULL, NULL, FirstOfJanuary) }
    \cup { CreateInput(1, "expense", 3000, Some(2), NULL, NULL, d) :
          d \in TransactionDates \ {FirstOfJanuary} }
    \cup { CreateInput(1, "income", 2500, Some(OtherCategoryId), NULL, NULL,
                       LastOfJanuary) }
    \cup { CreateInput(1, "payment", 3000, NULL, Some(1), Some(1), LastOfJanuary),
           CreateInput(1, "income", 3000, Some(1), Some(1), NULL, LastOfJanuary),
           CreateInput(1, "credit", 2500, NULL, Some(3), Some(1), LastOfJanuary) }
    \cup { CreateInput(OtherUser, "expense", 2500, Some(2), Some(1), NULL,
                       FirstOfJanuary),
           CreateInput(OtherUser, "income", 3000, Some(OtherCategoryId), NULL,
                       NULL, LastOfJanuary) }

\* Expenses of 0.1 and of 0.2.
CentsInputs ==
    { [CreateInput(1, "expense", 0, Some(2), NULL, NULL, FirstOfJanuary)
           EXCEPT !.amount = ParseFloat(a)] : a \in {10, 20} }

\* createTransaction inputs: those of the reports; income, expense and credit
\* with every seeded category (matching, not matching, absent); references to
\* rows that do not exist, a user and a pool among them beside a category of
\* another type; ids of 0; an empty and a given associated_person.
CreateInputs ==
    ReportInputs
    \cup { CreateInput(1, ty, 2500, c, NULL, NULL, FirstOfJanuary) :
          ty \in CategoryTypes, c \in {NULL, Some(1), Some(2), Some(3)} }
    \cup { CreateInput(1, "payment", 2500, NULL, NULL, NULL, FirstOfJanuary),
           CreateInput(1, "expense", 3000, Some(2), NULL, NULL, FirstOfJanuary) }
    \cup { CreateInput(3, "income", 2500, Some(1), NULL, NULL, FirstOfJanuary),
           CreateInput(3, "income", 2500, Some(2), NULL, NULL, FirstOfJanuary),
           CreateInput(1, "income", 2500, Some(2), Some(9), NULL, FirstOfJanuary),
           CreateInput(1, "expense", 2500, Some(9), NULL, NULL, FirstOfJanuary),
           CreateInput(1, "payment", 2500, NULL, NULL, Some(9), FirstOfJanuary),
           CreateInput(1, "payment", 2500, Some(9), NULL, NULL, FirstOfJanuary) }
    \cup { CreateInput(1, "income", 2500, NULL, Some(0), NULL, FirstOfJanuary),
           CreateInput(1, "expense", 2500, Some(0), NULL, NULL, FirstOfJanuary),
           CreateInput(1, "payment", 2500, NULL, NULL, Some(0), FirstOfJanuary),
           CreateInput(1, "payment", 2500, Some(0), NULL, NULL, FirstOfJanuary),
           CreateInput(1, "credit", 2500, NULL, NULL, Some(0), FirstOfJanuary),
           [CreateInput(1, "credit", 2500, NULL, NULL, Some(1), LastOfJanuary)
                EXCEPT !.associated_person = Some("")],
           [CreateInput(1, "credit", 3000, NULL, NULL, NULL, LastOfJanuary)
                EXCEPT !.associated_person = Some("Asha")] }

\* updateTransaction inputs besides id: only the supplied fields are present.
UpdatePatches ==
    { [amount |-> Number(4000), description |-> "edited"],
      [category_id |-> Some(1)],
      [pool_id |-> NULL, vendor_id |-> NULL, associated_person |-> NULL],
      [pool_id |-> Some(0)],
      [associated_person |-> Some("")] }

TransactionIds == 1 .. (MaxTx + 1)

\* ------------------------------------------------------------------------
\* After createDB and the seeding of the catalogue
\* ------------------------------------------------------------------------

Init ==
    /\ users = SeedUsers
    /\ categories = SeedCategories
    /\ vendors = SeedVendors
    /\ pools = SeedPools
    /\ budgets = << >>
    /\ nextIds = SeedNextIds
    /\ transactions = << >>
    /\ nextTxId = 1
    /\ response = [op |-> "none"]
    /\ creating = EmptyBag
    /\ updating = Idle
    /\ inflight = Idle
    /\ adding = Idle

\* ------------------------------------------------------------------------
\* createTransaction
\* ------------------------------------------------------------------------

Thrown(op, message) == [op |-> op, ok |-> FALSE, error |-> message]

Returned(op, value) == [op |-> op, ok |-> TRUE, value |-> value]

\* The value a field that is not null holds.
ValueOf(x) == CHOOSE v \in x : TRUE

\* The foreign keys of transactionsTable, checked by the database on insert
\* and update: a reference that is not null names a row, 0 as any other id.
ForeignKeysHold(row) ==
    /\ row.user_id \in users
    /\ row.pool_id \subseteq DOMAIN pools
    /\ row.category_id \subseteq DOMAIN categories
    /\ row.vendor_id \subseteq DOMAIN vendors

\* The handler awaits the select of the user, then, as the input asks for
\* them, the select of the pool and the select of the category or of the
\* vendor, then the insert: two to four statements, outside any database
\* transaction.  A call in progress is its input and the number of
\* statements it has awaited.

\* The statements a call awaits when none of them throws, in order.  A
\* reference is looked up when it is neither null nor undefined: an id of 0 is
\* looked up.
CreateStatements(input) ==
    <<"users">>
    \o (IF input.pool_id # NULL THEN <<"pools">> ELSE << >>)
    \o (IF input.type \in {"income", "expense", "credit"}
            /\ input.category_id # NULL
        THEN <<"categories">> ELSE << >>)
    \o (IF input.type = "payment" /\ input.vendor_id # NULL
        THEN <<"vendors">> ELSE << >>)
    \o <<"insert">>

\* The statement a call in progress awaits next.
Awaits(call) == CreateStatements(call.input)[call.awaited + 1]

\* The calls in progress once this one has awaited one more statement.
Proceeded(call) ==
    (creating (-) SetToBag({call}))
        (+) SetToBag({[call EXCEPT !.awaited = @ + 1]})

\* The calls in progress once this one has returned or thrown.
Ended(call) == creating (-) SetToBag({call})

\* The row the insert writes: pool_id, category_id, vendor_id and
\* associated_person pass through || null.  created_at and updated_at default
\* to now(); the model keeps them as the number of updates the row has seen.
InsertedRow(input) ==
    [user_id |-> input.user_id,
     pool_id |-> NumberOrNull(input.pool_id),
     type |-> input.type,
     amount |-> ToNumeric(input.amount),
     description |-> input.description,
     category_id |-> NumberOrNull(input.category_id),
     vendor_id |-> NumberOrNull(input.vendor_id),
     associated_person |-> StringOrNull(input.associated_person),
     transaction_date |-> input.transaction_date,
     created_at |-> 0,
     updated_at |-> 0]

\* A stored row as the handlers return it: id added, amount parsed.
AsTransaction(id, row) ==
    [id |-> id,
     user_id |-> row.user_id,
     pool_id |-> row.pool_id,
     type |-> row.type,
     amount |-> ParseFloat(row.amount),
     description |-> row.description,
     category_id |-> row.category_id,
     vendor_id |-> row.vendor_id,
     associated_person |-> row.associated_person,
     transaction_date |-> row.transaction_date,
     created_at |-> row.created_at,
     updated_at |-> row.updated_at]

\* await db.select().from(usersTable) and the check of its result: the first
\* statement of a call.  The call is begun while the id sequence has a value
\* left for it.
CreateSelectUser(input) ==
    /\ nextTxId + BagCardinality(creating) <= MaxTx
    /\ IF input.user_id \notin users
       THEN /\ response' = Thrown("createTransaction",
                                  <<"User with id", input.user_id,
                                    "does not exist">>)
            /\ UNCHANGED creating
       ELSE /\ creating' = creating
                               (+) SetToBag({[input |-> input, awaited |-> 1]})
            /\ response' = [op |-> "none"]
    /\ UNCHANGED <<tables, nextTxId>>

\* await db.select().from(poolsTable) and the check of its result.
CreateSelectPool(call) ==
    /\ IF ~(call.input.pool_id \subseteq DOMAIN pools)
       THEN /\ response' = Thrown("createTransaction",
                                  <<"Pool with id", ValueOf(call.input.pool_id),
                                    "does not exist">>)
            /\ creating' = Ended(call)
       ELSE /\ creating' = Proceeded(call)
            /\ UNCHANGED response
    /\ UNCHANGED <<tables, nextTxId>>

\* The select of the category without the comparison of its type.
CreateSelectCategory_NoTypeCheck(call) ==
    /\ IF ~(call.input.category_id \subseteq DOMAIN categories)
       THEN /\ response' = Thrown("createTransaction",
                                  <<"Category with id",
                                    ValueOf(call.input.category_id),
                                    "does not exist">>)
            /\ creating' = Ended(call)
       ELSE /\ creating' = Proceeded(call)
            /\ UNCHANGED response
    /\ UNCHANGED <<tables, nextTxId>>

\* await db.select().from(categoriesTable) and the checks of its result: the
\* category exists and its type is the transaction's.
CreateSelectCategory(call) ==
    /\ IF ~(call.input.category_id \subseteq DOMAIN categories)
       THEN /\ response' = Thrown("createTransaction",
                                  <<"Category with id",
                                    ValueOf(call.input.category_id),
                                    "does not exist">>)
            /\ creating' = Ended(call)
       ELSE IF categories[ValueOf(call.input.category_id)].type # call.input.type
       THEN /\ response' = Thrown("createTransaction",
                                  <<"Category type",
                                    categories[ValueOf(call.input.category_id)].type,
                                    "does not match transaction type",
                                    call.input.type>>)
            /\ creating' = Ended(call)
       ELSE /\ creating' = Proceeded(call)
            /\ UNCHANGED response
    /\ UNCHANGED <<tables, nextTxId>>

\* The select of the vendor without the check of its result.
CreateSelectVendor_NoCheck(call) ==
    /\ creating' = Proceeded(call)
    /\ UNCHANGED <<tables, nextTxId, response>>

\* await db.select().from(vendorsTable) and the check of its result.
CreateSelectVendor(call) ==
    /\ IF ~(call.input.vendor_id \subseteq DOMAIN vendors)
       THEN /\ response' = Thrown("createTransaction",
                                  <<"Vendor with id",
                                    ValueOf(call.input.vendor_id),
                                    "does not exist">>)
            /\ creating' = Ended(call)
       ELSE /\ creating' = Proceeded(call)
            /\ UNCHANGED response
    /\ UNCHANGED <<tables, nextTxId>>

\* await db.insert(transactionsTable)...returning() and the return of
\* result[0] with its amount parsed.  An insert that the foreign keys refuse
\* rejects; the sequence value it drew is spent.
CreateInsert(call) ==
    /\ LET row == InsertedRow(call.input)
       IN  IF ~ForeignKeysHold(row)
           THEN /\ response' = Thrown("createTransaction",
                                      <<"violates foreign key constraint">>)
                /\ nextTxId' = nextTxId + 1
                /\ UNCHANGED transactions
           ELSE /\ transactions' = (nextTxId :> row) @@ transactions
                /\ nextTxId' = nextTxId + 1
                /\ response' = Returned("createTransaction",
                                        AsTransaction(nextTxId, row))
    /\ creating' = Ended(call)
    /\ UNCHANGED catalog

\* The statement a call in progress awaits next, executed.
CreateStatement(call) ==
    /\ BagIn(call, creating)
    /\ IF Awaits(call) = "pools" THEN CreateSelectPool(call)
       ELSE IF Awaits(call) = "categories" THEN CreateSelectCategory(call)
       ELSE IF Awaits(call) = "vendors" THEN CreateSelectVendor(call)
       ELSE CreateInsert(call)

\* ------------------------------------------------------------------------
\* updateTransaction
\* ------------------------------------------------------------------------
\* The handler awaits the select of the existing row, then the UPDATE, outside
\* any database transaction: another call can delete the row in between.

Supplied(patch, field) == field \in DOMAIN patch

\* updateData with every updatable field in it: an omitted field is written
\* as null.
UpdatedRow_OmittedCleared(row, patch) ==
    [f \in DOMAIN row |->
        IF f = "updated_at" THEN row.updated_at + 1
        ELSE IF f = "amount"
        THEN (IF Supplied(patch, f) THEN ToNumeric(patch.amount) ELSE row[f])
        ELSE IF f \in {"pool_id", "category_id", "vendor_id"}
        THEN (IF Supplied(patch, f) THEN patch[f] ELSE NULL)
        ELSE IF f \in {"description", "associated_person", "transaction_date"}
                /\ Supplied(patch, f)
        THEN patch[f]
        ELSE row[f]]

\* updateData applied to the stored row: the supplied fields, as supplied,
\* and updated_at.
UpdatedRow(row, patch) ==
    [f \in DOMAIN row |->
        IF f = "updated_at" THEN row.updated_at + 1
        ELSE IF f = "amount" /\ Supplied(patch, f) THEN ToNumeric(patch.amount)
        ELSE IF f \in {"pool_id", "description", "category_id", "vendor_id",
                       "associated_person", "transaction_date"}
                /\ Supplied(patch, f)
        THEN patch[f]
        ELSE row[f]]

\* The select without the existence check after it: the call goes on to its
\* UPDATE whatever the select returned.
UpdateSelectExisting_NoExistenceCheck(id, patch) ==
    /\ updating = Idle
    /\ updating' = [op |-> "updateTransaction", id |-> id, patch |-> patch]
    /\ UNCHANGED <<tables, nextTxId, response>>

\* await db.select()...where(eq(id)) and the existence check.
UpdateSelectExisting(id, patch) ==
    /\ updating = Idle
    /\ IF id \notin DOMAIN transactions
       THEN /\ response' = Thrown("updateTransaction",
                                  <<"Transaction with id", id, "not found">>)
            /\ updating' = Idle
       ELSE /\ updating' = [op |-> "updateTransaction", id |-> id,
                            patch |-> patch]
            /\ response' = [op |-> "none"]
    /\ UNCHANGED <<tables, nextTxId>>

\* await db.update()...returning() and the return of result[0]: an UPDATE
\* that matches no row returns no row, and reading result[0].amount throws.
UpdateStatement ==
    /\ updating.op = "updateTransaction"
    /\ IF updating.id \notin DOMAIN transactions
       THEN /\ response' = Thrown("updateTransaction",
                                  <<"TypeError", "Cannot read properties of undefined">>)
            /\ UNCHANGED transactions
       ELSE LET row == UpdatedRow(transactions[updating.id], updating.patch)
            IN  IF ~ForeignKeysHold(row)
                THEN /\ response' = Thrown("updateTransaction",
                                           <<"violates foreign key constraint">>)
                     /\ UNCHANGED transactions
                ELSE /\ transactions' = [transactions EXCEPT ![updating.id] = row]
                     /\ response' = Returned("updateTransaction",
                                             AsTransaction(updating.id, row))
    /\ updating' = Idle
    /\ UNCHANGED <<catalog, nextTxId>>

\* ------------------------------------------------------------------------
\* deleteTransaction
\* ------------------------------------------------------------------------

\* The handler answering true whatever the count of deleted rows.
deleteTransaction_AlwaysTrue(id) ==
    /\ transactions' = [i \in DOMAIN transactions \ {id} |-> transactions[i]]
    /\ response' = Returned("deleteTransaction", TRUE)
    /\ UNCHANGED <<catalog, nextTxId>>

deleteTransaction(id) ==
    /\ transactions' = [i \in DOMAIN transactions \ {id} |-> transactions[i]]
    /\ response' = Returned("deleteTransaction", id \in DOMAIN transactions)
    /\ UNCHANGED <<catalog, nextTxId>>

\* ------------------------------------------------------------------------
\* createVendor, createPool, createBudget
\* ------------------------------------------------------------------------
\* The rows are kept without created_at, which no handler reads.

\* await db.select().from(usersTable) and the check of its result.
CreateVendorSelectUser(input) ==
    /\ adding = Idle
    /\ IF input.user_id \notin users
       THEN /\ response' = Thrown("createVendor",
                                  <<"User with id", input.user_id,
                                    "does not exist">>)
            /\ UNCHANGED adding
       ELSE /\ adding' = [op |-> "createVendor", input |-> input]
            /\ response' = [op |-> "none"]
    /\ UNCHANGED <<tables, nextTxId>>

\* await db.insert(vendorsTable)...returning() and the return of result[0].
\* The id is taken from the sequence before user_id is checked against
\* usersTable.
CreateVendorInsert ==
    /\ adding.op = "createVendor"
    /\ LET id == nextIds.vendors
           row == [user_id |-> adding.input.user_id,
                   name |-> adding.input.name,
                   description |-> adding.input.description]
       IN  IF row.user_id \notin users
           THEN /\ response' = Thrown("createVendor",
                                      <<"violates foreign key constraint">>)
                /\ UNCHANGED vendors
           ELSE /\ vendors' = (id :> row) @@ vendors
                /\ response' = Returned("createVendor",
                                        [id |-> id] @@ row)
    /\ nextIds' = [nextIds EXCEPT !.vendors = @ + 1]
    /\ adding' = Idle
    /\ UNCHANGED <<users, categories, pools, budgets, transactions, nextTxId>>

\* createPool: the insert and the return of result[0]; user_id references
\* usersTable.
createPool(input) ==
    /\ LET id == nextIds.pools
           row == [user_id |-> input.user_id,
                   name |-> input.name,
                   type |-> input.type,
                   description |-> input.description]
       IN  IF row.user_id \notin users
           THEN /\ response' = Thrown("createPool",
                                      <<"violates foreign key constraint">>)
                /\ UNCHANGED pools
           ELSE /\ pools' = (id :> row) @@ pools
                /\ response' = Returned("createPool", [id |-> id] @@ row)
    /\ nextIds' = [nextIds EXCEPT !.pools = @ + 1]
    /\ UNCHANGED <<users, categories, vendors, budgets, transactions,
                   nextTxId>>

\* createBudget: the insert, target_amount written as its toString() to the
\* numeric(15,2) column, and the return of the row with target_amount parsed;
\* pool_id references poolsTable.
createBudget(input) ==
    /\ LET id == nextIds.budgets
           row == [pool_id |-> input.pool_id,
                   target_amount |-> ToNumeric(input.target_amount),
                   period_start |-> input.period_start,
                   period_end |-> input.period_end]
       IN  IF row.pool_id \notin DOMAIN pools
           THEN /\ response' = Thrown("createBudget",
                                      <<"violates foreign key constraint">>)
                /\ UNCHANGED budgets
           ELSE /\ budgets' = (id :> row) @@ budgets
                /\ response' = Returned("createBudget",
                       [row EXCEPT !.target_amount = ParseFloat(@)]
                           @@ [id |-> id])
    /\ nextIds' = [nextIds EXCEPT !.budgets = @ + 1]
    /\ UNCHANGED <<users, categories, vendors, pools, transactions, nextTxId>>

\* ------------------------------------------------------------------------
\* getTransactions
\* ------------------------------------------------------------------------

\* if (query.x): the field is given and its value is not one that JavaScript
\* takes for false.  Of the values the schema admits that is the number 0; a
\* type is a non-empty string and a Date is an object.
Truthy(query, field) ==
    /\ field \in DOMAIN query
    /\ field \in {"pool_id", "category_id", "vendor_id"} => query[field] # 0

\* eq(column, value) in a WHERE clause: a null column equals no value.
SqlEq(column, value) == column = Some(value)

\* The conditions pushed for the query, as a predicate on one row.
TransactionConditions(row, query) ==
    /\ row.user_id = query.user_id
    /\ Truthy(query, "type") => row.type = query.type
    /\ Truthy(query, "pool_id") => SqlEq(row.pool_id, query.pool_id)
    /\ Truthy(query, "category_id") => SqlEq(row.category_id, query.category_id)
    /\ Truthy(query, "vendor_id") => SqlEq(row.vendor_id, query.vendor_id)
    /\ Truthy(query, "start_date") => Gte(row.transaction_date, query.start_date)
    /\ Truthy(query, "end_date") => Lte(row.transaction_date, query.end_date)

\* The rows the select returns, mapped to transactions.  The query has no
\* ORDER BY: the result is kept as a set.
TransactionsResult(tx, query) ==
    { AsTransaction(id, tx[id]) :
        id \in { i \in DOMAIN tx : TransactionConditions(tx[i], query) } }

\* The filters asked for: none, each one alone, a date range, two filters
\* together, a user that does not exist, and ids that no row has (9 and 0).
TransactionQueries ==
    { [user_id |-> u] : u \in {1, 2, 3} }
    \cup { [user_id |-> 1, type |-> "expense"],
           [user_id |-> 1, start_date |-> FirstOfJanuary],
           [user_id |-> 1, end_date |-> FirstOfJanuary],
           [user_id |-> 1, start_date |-> FirstOfJanuary,
            end_date |-> LastOfJanuary],
           [user_id |-> 1, type |-> "expense", category_id |-> 2] }
    \cup { [user_id |-> 1, pool_id |-> p] : p \in {1, 9, 0} }
    \cup { [user_id |-> 1, category_id |-> c] : c \in {2, 0} }
    \cup { [user_id |-> 1, vendor_id |-> v] : v \in {1, 0} }

getTransactions(query) ==
    /\ response' = [op |-> "getTransactions", ok |-> TRUE, query |-> query,
                    value |-> TransactionsResult(transactions, query)]
    /\ UNCHANGED <<tables, nextTxId>>

\* ------------------------------------------------------------------------
\* SQL aggregates
\* ------------------------------------------------------------------------
\* The queries are written over a transactions table tx (id -> row); the
\* handlers run them over the stored table.

RECURSIVE SumAmount(_, _)
\* sum(transactions.amount) over the rows with the given ids: a numeric.
SumAmount(tx, ids) ==
    IF ids = {} THEN 0
    ELSE LET i == CHOOSE x \in ids : TRUE
         IN  tx[i].amount + SumAmount(tx, ids \ {i})

\* count(*) over the rows with the given ids.
CountRows(ids) == Cardinality(ids)

\* ------------------------------------------------------------------------
\* The store's answers to a report's queries
\* ------------------------------------------------------------------------
\* A report handler awaits its queries one after the other.  The store either
\* answers them all or fails one of them, which rejects the awaited promise.

\* No query of the call fails.
NoFailure == "none"

\* The queries getMonthlyReport executes, in order.
MonthlyStoreQueries == <<"totalsQuery", "categoryQuery", "poolQuery">>

\* The query getCategoryReport executes.
CategoryStoreQueries == <<"finalQuery">>

\* The error a failed execute() rejects with.
StoreError(name) == <<"Failed query", name>>

\* The queries a call has executed when the store fails the one named
\* failing (all of them when none fails), each with the store's answer.
Issued(names, failing) ==
    LET last == IF failing = NoFailure THEN Len(names)
                ELSE CHOOSE i \in 1 .. Len(names) : names[i] = failing
    IN  [i \in 1 .. last |->
            [query |-> names[i],
             outcome |-> IF names[i] = failing THEN "failed" ELSE "ok"]]

\* ------------------------------------------------------------------------
\* getMonthlyReport
\* ------------------------------------------------------------------------

\* First and last instant the report's window admits.
MonthStartDate(query) == NewDate(query.year, query.month - 1, 1, 0, 0, 0, 0)

\* The window's end without the end of the day.
MonthEndDate_Midnight(query) == NewDate(query.year, query.month, 0, 0, 0, 0, 0)

MonthEndDate(query) == NewDate(query.year, query.month, 0, 23, 59, 59, 999)

\* baseConditions without the condition on user_id.
BaseConditions_AnyUser(tx, query) ==
    { id \in DOMAIN tx :
        /\ Gte(tx[id].transaction_date, MonthStartDate(query))
        /\ Lte(tx[id].transaction_date, MonthEndDate(query)) }

\* baseConditions: the ids of the rows that satisfy them.
BaseConditions(tx, query) ==
    LET startDate == MonthStartDate(query)
        endDate == MonthEndDate(query)
    IN  { id \in DOMAIN tx :
            /\ tx[id].user_id = query.user_id
            /\ Gte(tx[id].transaction_date, startDate)
            /\ Lte(tx[id].transaction_date, endDate) }

\* totalsQuery: one result row per transaction type present (GROUP BY type).
TotalsResults(tx, query) ==
    LET rows == BaseConditions(tx, query)
    IN  { [type |-> ty,
           totalAmount |-> SumAmount(tx, {id \in rows : tx[id].type = ty}),
           count |-> CountRows({id \in rows : tx[id].type = ty})] :
          ty \in {tx[id].type : id \in rows} }

\* The switch assigning the group's count where it should assign its amount.
TotalOfType_Count(results, ty) ==
    IF \E r \in results : r.type = ty
    THEN Number((CHOOSE r \in results : r.type = ty).count)
    ELSE Number(0)

\* The forEach over totalsResults: the total the switch assigns for one type,
\* 0 when no result row has it.
TotalOfType(results, ty) ==
    IF \E r \in results : r.type = ty
    THEN ParseFloat((CHOOSE r \in results : r.type = ty).totalAmount)
    ELSE Number(0)

\* transactionCount = count where it should be += count.
SumCounts_Assign(results) ==
    IF results = {} THEN 0 ELSE (CHOOSE r \in results : TRUE).count

RECURSIVE SumCounts(_)
\* The forEach over totalsResults: transactionCount += count.
SumCounts(results) ==
    IF results = {} THEN 0
    ELSE LET r == CHOOSE x \in results : TRUE
         IN  r.count + SumCounts(results \ {r})

\* Payments subtracted like expenses.
NetAmount_PaymentsSubtracted(totalIncome, totalPayments, totalExpenses, totalCredit) ==
    Minus(Minus(Minus(totalIncome, totalPayments), totalExpenses), totalCredit)

\* totalIncome + totalPayments - totalExpenses - totalCredit, from left to
\* right.
NetAmount(totalIncome, totalPayments, totalExpenses, totalCredit) ==
    Minus(Minus(Plus(totalIncome, totalPayments), totalExpenses), totalCredit)

\* The category breakdown selecting and grouping by the transaction's type.
CategoryBreakdown_TransactionType(tx, query) ==
    LET rows == { id \in BaseConditions(tx, query) :
                    /\ tx[id].category_id # NULL
                    /\ tx[id].category_id \subseteq DOMAIN categories }
    IN  { [categoryId |-> g[1],
           categoryName |-> categories[g[1]].name,
           type |-> g[2],
           totalAmount |->
               ParseFloat(SumAmount(tx, {id \in rows :
                                           /\ tx[id].category_id = Some(g[1])
                                           /\ tx[id].type = g[2]})),
           transactionCount |->
               CountRows({id \in rows : /\ tx[id].category_id = Some(g[1])
                                         /\ tx[id].type = g[2]})] :
          g \in {<<ValueOf(tx[id].category_id), tx[id].type>> : id \in rows} }

\* categoryQuery and its map: INNER JOIN categories, GROUP BY the category.
\* The result rows come in no stated order: a set.
CategoryBreakdown(tx, query) ==
    LET rows == { id \in BaseConditions(tx, query) :
                    /\ tx[id].category_id # NULL
                    /\ tx[id].category_id \subseteq DOMAIN categories }
    IN  { [categoryId |-> c,
           categoryName |-> categories[c].name,
           type |-> categories[c].type,
           totalAmount |->
               ParseFloat(SumAmount(tx, {id \in rows :
                                           tx[id].category_id = Some(c)})),
           transactionCount |->
               CountRows({id \in rows : tx[id].category_id = Some(c)})] :
          c \in {ValueOf(tx[id].category_id) : id \in rows} }

\* The pool breakdown keeping only the transactions of the pool's own type.
PoolBreakdown_SameType(tx, query) ==
    LET rows == { id \in BaseConditions(tx, query) :
                    /\ tx[id].pool_id # NULL
                    /\ tx[id].pool_id \subseteq DOMAIN pools
                    /\ pools[ValueOf(tx[id].pool_id)].type = tx[id].type }
    IN  { [poolId |-> p,
           poolName |-> pools[p].name,
           type |-> pools[p].type,
           totalAmount |->
               ParseFloat(SumAmount(tx, {id \in rows : tx[id].pool_id = Some(p)})),
           transactionCount |->
               CountRows({id \in rows : tx[id].pool_id = Some(p)})] :
          p \in {ValueOf(tx[id].pool_id) : id \in rows} }

\* poolQuery and its map: INNER JOIN pools, GROUP BY the pool.
PoolBreakdown(tx, query) ==
    LET rows == { id \in BaseConditions(tx, query) :
                    /\ tx[id].pool_id # NULL
                    /\ tx[id].pool_id \subseteq DOMAIN pools }
    IN  { [poolId |-> p,
           poolName |-> pools[p].name,
           type |-> pools[p].type,
           totalAmount |->
               ParseFloat(SumAmount(tx, {id \in rows : tx[id].pool_id = Some(p)})),
           transactionCount |->
               CountRows({id \in rows : tx[id].pool_id = Some(p)})] :
          p \in {ValueOf(tx[id].pool_id) : id \in rows} }

\* The report object built from the results of the three queries.
AssembleMonthlyReport(results, categoryResults, poolResults) ==
    LET totalIncome == TotalOfType(results, "income")
        totalExpenses == TotalOfType(results, "expense")
        totalCredit == TotalOfType(results, "credit")
        totalPayments == TotalOfType(results, "payment")
    IN  [totalIncome |-> totalIncome,
         totalExpenses |-> totalExpenses,
         totalCredit |-> totalCredit,
         totalPayments |-> totalPayments,
         netAmount |-> NetAmount(totalIncome, totalPayments, totalExpenses,
                                 totalCredit),
         transactionCount |-> SumCounts(results),
         categoryBreakdown |-> categoryResults,
         poolBreakdown |-> poolResults]

\* The report when the three queries read one table.
MonthlyReport(tx, query) ==
    AssembleMonthlyReport(TotalsResults(tx, query), CategoryBreakdown(tx, query),
                          PoolBreakdown(tx, query))

\* The months asked for: by the first user December 2023 and January 2024,
\* each as a month in 1..12 and again as month 0 of 2024 and month 13 of
\* 2023; by the other user January 2024, the month of all their
\* transactions.
MonthlyQueries ==
    { [user_id |-> 1, year |-> ym[1], month |-> ym[2]] :
        ym \in {<<2023, 12>>, <<2023, 13>>, <<2024, 0>>, <<2024, 1>>} }
    \cup { [user_id |-> OtherUser, year |-> 2024, month |-> 1] }

\* The handler awaits totalsQuery, categoryQuery and poolQuery one after the
\* other on the connection pool, outside any database transaction: each query
\* reads the table as it is when it runs, and other calls run in between.
\* The call in progress keeps the results it has and, for the properties, the
\* tables the store has held since the call began.

\* A failed query answered by a report built from the results the call has.
MonthlyFailure_PartialReport(call, failing) ==
    [op |-> "getMonthlyReport", ok |-> TRUE, query |-> call.query,
     issued |-> Issued(MonthlyStoreQueries, failing),
     value |->
        AssembleMonthlyReport(
            IF "totals" \in DOMAIN call THEN call.totals ELSE {},
            IF "categoryBreakdown" \in DOMAIN call
            THEN call.categoryBreakdown ELSE {},
            {})]

\* What the call gives its caller when the store fails the query it awaits:
\* execute() rejects and the catch block rethrows the store's error.
MonthlyFailure(call, failing) ==
    [op |-> "getMonthlyReport", ok |-> FALSE, query |-> call.query,
     issued |-> Issued(MonthlyStoreQueries, failing),
     error |-> StoreError(failing)]

\* await totalsQuery.execute(), answered by the store: the first statement
\* of a call.
MonthlyTotalsQuery(query) ==
    /\ inflight = Idle
    /\ inflight' = [op |-> "getMonthlyReport", query |-> query, awaited |-> 1,
                    totals |-> TotalsResults(transactions, query),
                    seen |-> {transactions}]
    /\ response' = [op |-> "none"]
    /\ UNCHANGED <<tables, nextTxId, creating, updating, adding>>

\* await categoryQuery.execute(), answered by the store.
MonthlyCategoryQuery ==
    /\ inflight.op = "getMonthlyReport"
    /\ inflight.awaited = 1
    /\ inflight' = [op |-> "getMonthlyReport", query |-> inflight.query,
                    awaited |-> 2, totals |-> inflight.totals,
                    categoryBreakdown |->
                        CategoryBreakdown(transactions, inflight.query),
                    seen |-> inflight.seen]
    /\ UNCHANGED <<tables, nextTxId, response, creating, updating, adding>>

\* The last statement touching the rows it has read.
MonthlyPoolQuery_Touching ==
    /\ inflight.op = "getMonthlyReport"
    /\ inflight.awaited = 2
    /\ response' = [op |-> "getMonthlyReport", ok |-> TRUE,
                    query |-> inflight.query,
                    issued |-> Issued(MonthlyStoreQueries, NoFailure),
                    value |-> AssembleMonthlyReport(inflight.totals,
                                  inflight.categoryBreakdown,
                                  PoolBreakdown(transactions, inflight.query)),
                    seen |-> inflight.seen]
    /\ transactions' =
           [id \in DOMAIN transactions |->
               IF id \in BaseConditions(transactions, inflight.query)
               THEN [transactions[id] EXCEPT !.updated_at = @ + 1]
               ELSE transactions[id]]
    /\ inflight' = Idle
    /\ UNCHANGED <<catalog, nextTxId, creating, updating, adding>>

\* await poolQuery.execute(), answered by the store, and the return of the
\* report.
MonthlyPoolQuery ==
    /\ inflight.op = "getMonthlyReport"
    /\ inflight.awaited = 2
    /\ response' = [op |-> "getMonthlyReport", ok |-> TRUE,
                    query |-> inflight.query,
                    issued |-> Issued(MonthlyStoreQueries, NoFailure),
                    value |-> AssembleMonthlyReport(inflight.totals,
                                  inflight.categoryBreakdown,
                                  PoolBreakdown(transactions, inflight.query)),
                    seen |-> inflight.seen]
    /\ inflight' = Idle
    /\ UNCHANGED <<tables, nextTxId, creating, updating, adding>>

\* await totalsQuery.execute(), failed by the store.
MonthlyTotalsQueryFails(query) ==
    /\ inflight = Idle
    /\ response' = MonthlyFailure([query |-> query], "totalsQuery")
    /\ UNCHANGED <<tables, nextTxId, calls>>

\* await categoryQuery.execute() or await poolQuery.execute(), failed by the
\* store.
MonthlyLaterQueryFails ==
    /\ inflight.op = "getMonthlyReport"
    /\ response' = MonthlyFailure(inflight,
                                  MonthlyStoreQueries[inflight.awaited + 1])
    /\ inflight' = Idle
    /\ UNCHANGED <<tables, nextTxId, creating, updating, adding>>

\* The call in progress after another call has written the table.
AfterWrite ==
    IF inflight.op = "getMonthlyReport"
    THEN [inflight EXCEPT !.seen = @ \cup {transactions'}]
    ELSE inflight

\* ------------------------------------------------------------------------
\* getCategoryReport
\* ------------------------------------------------------------------------

\* The query without its end_date condition.
CategoryReportRows_NoEndDate(tx, query) ==
    { id \in DOMAIN tx :
        /\ tx[id].category_id \subseteq DOMAIN categories
        /\ tx[id].user_id = query.user_id
        /\ tx[id].type \in {"income", "expense", "credit"}
        /\ tx[id].category_id # NULL
        /\ ("start_date" \in DOMAIN query
                => Gte(tx[id].transaction_date, query.start_date)) }

\* The query with gt and lt where it should have gte and lte.
CategoryReportRows_Exclusive(tx, query) ==
    { id \in DOMAIN tx :
        /\ tx[id].category_id \subseteq DOMAIN categories
        /\ tx[id].user_id = query.user_id
        /\ tx[id].type \in {"income", "expense", "credit"}
        /\ tx[id].category_id # NULL
        /\ ("start_date" \in DOMAIN query
                => ~Lte(tx[id].transaction_date, query.start_date))
        /\ ("end_date" \in DOMAIN query
                => ~Gte(tx[id].transaction_date, query.end_date)) }

\* The query without its inArray condition on the transaction's type.
CategoryReportRows_AnyType(tx, query) ==
    { id \in DOMAIN tx :
        /\ tx[id].category_id \subseteq DOMAIN categories
        /\ tx[id].user_id = query.user_id
        /\ tx[id].category_id # NULL
        /\ ("start_date" \in DOMAIN query
                => Gte(tx[id].transaction_date, query.start_date))
        /\ ("end_date" \in DOMAIN query
                => Lte(tx[id].transaction_date, query.end_date)) }

\* The joined rows the query returns: the ids of the transactions that join a
\* category and satisfy the conditions.
CategoryReportRows(tx, query) ==
    { id \in DOMAIN tx :
        /\ tx[id].category_id \subseteq DOMAIN categories
        /\ tx[id].user_id = query.user_id
        /\ tx[id].type \in {"income", "expense", "credit"}
        /\ tx[id].category_id # NULL
        /\ ("start_date" \in DOMAIN query
                => Gte(tx[id].transaction_date, query.start_date))
        /\ ("end_date" \in DOMAIN query
                => Lte(tx[id].transaction_date, query.end_date)) }

\* The category a row with a category joins.
CategoryOf(row) == ValueOf(row.category_id)

\* ORDER BY categories.name DESC: the rows, by their ids, in an order the
\* store may return them.  The order of the rows of one category is the
\* store's choice.
ResultOrders(tx, query) ==
    LET rows == CategoryReportRows(tx, query)
        name(id) == NameRank(categories[CategoryOf(tx[id])].name)
    IN  { results \in [1 .. Cardinality(rows) -> rows] :
            /\ \A i, j \in DOMAIN results : i < j => results[i] # results[j]
            /\ \A i, j \in DOMAIN results : i < j =>
                   name(results[i]) >= name(results[j]) }

\* The keys of categoryMap in their order of insertion: the categories of
\* the rows by first appearance.
CategoryMapKeys(tx, results) ==
    LET first(i) == \A j \in 1 .. (i - 1) :
                        tx[results[j]].category_id # tx[results[i]].category_id
        firsts == SelectSeq([i \in DOMAIN results |-> i], first)
    IN  [k \in DOMAIN firsts |-> CategoryOf(tx[results[firsts[k]]])]

RECURSIVE ReduceAmounts(_, _)
\* transactions.reduce((sum, t) => sum + t.amount, 0) over the parsed amounts
\* of the rows, in their order.
ReduceAmounts(tx, ids) ==
    IF ids = << >> THEN Number(0)
    ELSE Plus(ReduceAmounts(tx, SubSeq(ids, 1, Len(ids) - 1)),
              ParseFloat(tx[ids[Len(ids)]].amount))

\* transactionCount > 0 ? totalAmount / transactionCount : 0
AverageAmount(totalAmount, transactionCount) ==
    IF transactionCount > 0 THEN Quotient(totalAmount, transactionCount)
    ELSE Number(0)

\* The key of monthlyMap for one transaction: year and month (1 = January).
MonthKey(row) ==
    <<GetFullYear(row.transaction_date), GetMonth(row.transaction_date) + 1>>

\* The values of monthlyMap: one per key, accumulated over the rows in their
\* order.
MonthlyMap(tx, ids) ==
    LET key == [i \in DOMAIN ids |-> MonthKey(tx[ids[i]])]
        ofKey(k) == SelectSeq(ids, LAMBDA id : MonthKey(tx[id]) = k)
    IN  { [year |-> k[1],
           month |-> k[2],
           totalAmount |-> ReduceAmounts(tx, ofKey(k)),
           transactionCount |-> Len(ofKey(k))] :
          k \in {key[i] : i \in DOMAIN ids} }

\* The comparator without its comparison of the years.
CompareMonths_MonthOnly(a, b) == a.month - b.month

\* The sort comparator: negative when a goes before b.
CompareMonths(a, b) ==
    IF a.year # b.year THEN a.year - b.year ELSE a.month - b.month

RECURSIVE SortMonths(_)
SortMonths(entries) ==
    IF entries = {} THEN << >>
    ELSE LET e == CHOOSE x \in entries :
                    \A y \in entries : CompareMonths(x, y) <= 0
         IN  <<e>> \o SortMonths(entries \ {e})

\* One element of categories: the map callback over one categoryMap value,
\* the rows of the category in their order.
CategoryEntry(tx, c, ids) ==
    LET totalAmount == ReduceAmounts(tx, ids)
        transactionCount == Len(ids)
    IN  [categoryId |-> c,
         categoryName |-> categories[c].name,
         type |-> categories[c].type,
         totalAmount |-> totalAmount,
         transactionCount |-> transactionCount,
         averageAmount |-> AverageAmount(totalAmount, transactionCount),
         monthlyBreakdown |-> SortMonths(MonthlyMap(tx, ids))]

CategoryEntries(tx, results) ==
    LET keys == CategoryMapKeys(tx, results)
    IN  [k \in DOMAIN keys |->
            CategoryEntry(tx, keys[k],
                SelectSeq(results,
                    LAMBDA id : tx[id].category_id = Some(keys[k])))]

RECURSIVE TotalsByType_Assign(_, _)
\* The forEach assigning the category's total where it should add it.
TotalsByType_Assign(entries, totals) ==
    IF entries = << >> THEN totals
    ELSE LET e == Head(entries)
         IN  TotalsByType_Assign(Tail(entries),
                                 [totals EXCEPT ![e.type] = e.totalAmount])

RECURSIVE TotalsByType(_, _)
\* categories.forEach(category => totalsByType[category.type] += totalAmount)
TotalsByType(entries, totals) ==
    IF entries = << >> THEN totals
    ELSE LET e == Head(entries)
         IN  TotalsByType(Tail(entries),
                          [totals EXCEPT ![e.type] = Plus(@, e.totalAmount)])

\* The report built from the rows in the order the store returned them.
CategoryReport(tx, results) ==
    LET entries == CategoryEntries(tx, results)
    IN  [categories |-> entries,
         totalsByType |->
             TotalsByType(entries, [income |-> Number(0), expense |-> Number(0),
                                    credit |-> Number(0)])]

\* The ranges asked for: by the first user no bound, either bound and both;
\* by the other user no bound (January 2024 holds all their transactions).
CategoryQueries ==
    { [user_id |-> u] : u \in {1, OtherUser} }
    \cup { [user_id |-> 1, start_date |-> FirstOfJanuary],
           [user_id |-> 1, end_date |-> LastOfJanuary],
           [user_id |-> 1, start_date |-> FirstOfJanuary,
            end_date |-> LastOfJanuary] }

\* The report when the store answers the query with the rows in the given
\* order; the store's error, rethrown by the catch block, when it fails it.
CategoryOutcome(tx, query, failing, results) ==
    IF failing = NoFailure
    THEN [op |-> "getCategoryReport", ok |-> TRUE, query |-> query,
          issued |-> Issued(CategoryStoreQueries, failing),
          results |-> results,
          value |-> CategoryReport(tx, results)]
    ELSE [op |-> "getCategoryReport", ok |-> FALSE, query |-> query,
          issued |-> Issued(CategoryStoreQueries, failing),
          error |-> StoreError(failing)]

getCategoryReport(query, failing, results) ==
    /\ response' = CategoryOutcome(transactions, query, failing, results)
    /\ UNCHANGED <<tables, nextTxId>>

\* The reports the call may return: one for each order of the rows.
CategoryReports(tx, query) ==
    { CategoryReport(tx, results) : results \in ResultOrders(tx, query) }

\* ------------------------------------------------------------------------
\* Stores of amounts with cents
\* ------------------------------------------------------------------------
\* parseFloat of '0.10' is not a whole double: every sum of such amounts
\* rounds, and getCategoryReport adds the amounts in the order in which the
\* store returns the rows.

\* The amounts 0.10, 0.20 and 0.30 as the numeric(15,2) column holds them.
CentsAmounts == {10, 20, 30}

\* The row createTransaction inserts for an expense of the first user with the
\* given hundredths: (0.1).toString() is '0.1', stored as 0.10.
CentsRow(amount) ==
    InsertedRow([CreateInput(1, "expense", 0, Some(2), NULL, NULL, FirstOfJanuary)
                    EXCEPT !.amount = ParseFloat(amount)])

\* Three rows: the fewest whose total can depend on their order.
CentsIds == 1 .. (MaxTx + 1)

\* The whole history of either user.
CentsQueries == { [user_id |-> u] : u \in {1, OtherUser} }

\* ------------------------------------------------------------------------
\* Specification
\* ------------------------------------------------------------------------

\* A caller that awaits each call before it makes the next, as the tests of
\* the handlers do, begins a call when none is in progress (Awaited); the
\* statements of the call it has begun follow as steps of their own.  Callers
\* that do not wait for each other begin their calls beside the calls in
\* progress.

\* createTransaction begun: its select of the user.
CreateTransaction ==
    \E input \in CreateInputs :
        Awaited /\ CreateSelectUser(input) /\ UNCHANGED <<updating, inflight, adding>>

\* The creations of the transactions the reports are asked about.
CreateReportedTransaction ==
    \E input \in ReportInputs :
        Awaited /\ CreateSelectUser(input) /\ UNCHANGED <<updating, inflight, adding>>

\* The creations of expenses with cents.
CreateCentsTransaction ==
    \E input \in CentsInputs :
        Awaited /\ CreateSelectUser(input) /\ UNCHANGED <<updating, inflight, adding>>

\* The next statement of a createTransaction call in progress.
ContinueCreate ==
    \E call \in BagToSet(creating) :
        CreateStatement(call) /\ inflight' = AfterWrite
                              /\ UNCHANGED <<updating, adding>>

\* The UPDATE of the updateTransaction call in progress.
FinishUpdate ==
    UpdateStatement /\ inflight' = AfterWrite
                    /\ UNCHANGED <<creating, adding>>

DeleteTransaction ==
    \E id \in TransactionIds :
        Awaited /\ deleteTransaction(id) /\ UNCHANGED calls

\* getMonthlyReport begun: its totalsQuery.  MonthlyCategoryQuery and
\* MonthlyPoolQuery are the steps that follow.
GetMonthlyReport ==
    \E query \in MonthlyQueries : Awaited /\ MonthlyTotalsQuery(query)

\* A category report whose query the store answers, the rows in any order
\* its ORDER BY admits.
GetCategoryReport ==
    \E query \in CategoryQueries :
        \E results \in ResultOrders(transactions, query) :
            Awaited /\ getCategoryReport(query, NoFailure, results)
                    /\ UNCHANGED calls

\* The report calls that meet a failing store: January 2024 and the whole
\* history of the first user.
FailedMonthlyQueries ==
    { q \in MonthlyQueries : q.user_id = 1 /\ q.year = 2024 /\ q.month = 1 }

FailedCategoryQueries ==
    { q \in CategoryQueries : q.user_id = 1 /\ DOMAIN q = {"user_id"} }

\* getMonthlyReport begun on a store that fails its totalsQuery.
GetMonthlyReportStoreFailure ==
    \E query \in FailedMonthlyQueries :
        Awaited /\ MonthlyTotalsQueryFails(query)

\* The store failing the query that the monthly report in progress awaits.
MonthlyReportStoreFailure ==
    /\ inflight.op = "getMonthlyReport"
    /\ inflight.query \in FailedMonthlyQueries
    /\ MonthlyLaterQueryFails

GetCategoryReportStoreFailure ==
    \E query \in FailedCategoryQueries :
        \E i \in DOMAIN CategoryStoreQueries :
            Awaited /\ getCategoryReport(query, CategoryStoreQueries[i], << >>)
                    /\ UNCHANGED calls

GetTransactions ==
    \E query \in TransactionQueries :
        Awaited /\ getTransactions(query) /\ UNCHANGED calls

\* The monthly report asked of every store that creations and deletions build.
NextMonthly ==
    \/ CreateReportedTransaction
    \/ CreateCentsTransaction
    \/ ContinueCreate
    \/ DeleteTransaction
    \/ GetMonthlyReport
    \/ MonthlyCategoryQuery
    \/ MonthlyPoolQuery

SpecMonthly == Init /\ [][NextMonthly]_vars

\* The category report asked of every store that creations and deletions
\* build, with and without the other user and their category.
NextCategory ==
    \/ InsertOtherUser
    \/ InsertOtherCategory
    \/ CreateReportedTransaction
    \/ ContinueCreate
    \/ DeleteTransaction
    \/ GetCategoryReport

SpecCategory == Init /\ [][NextCategory]_vars

\* Both reports asked of every store that creations and deletions build,
\* with and without the other user and their category.
NextReports ==
    \/ InsertOtherUser
    \/ InsertOtherCategory
    \/ CreateReportedTransaction
    \/ ContinueCreate
    \/ DeleteTransaction
    \/ GetMonthlyReport
    \/ MonthlyCategoryQuery
    \/ MonthlyPoolQuery
    \/ GetCategoryReport

SpecReports == Init /\ [][NextReports]_vars

\* Both reports, asked of a store that answers and of one that fails a query.
NextReads ==
    \/ CreateReportedTransaction
    \/ ContinueCreate
    \/ DeleteTransaction
    \/ GetMonthlyReport
    \/ MonthlyCategoryQuery
    \/ MonthlyPoolQuery
    \/ GetCategoryReport
    \/ GetMonthlyReportStoreFailure
    \/ MonthlyReportStoreFailure
    \/ GetCategoryReportStoreFailure

SpecReads == Init /\ [][NextReads]_vars

\* getMonthlyReport begun for a month whose later queries the store may fail.
GetFailingMonthlyReport ==
    \E query \in FailedMonthlyQueries : Awaited /\ MonthlyTotalsQuery(query)

\* Both reports asked of a store that fails one of their queries.
NextStoreFailure ==
    \/ CreateReportedTransaction
    \/ ContinueCreate
    \/ DeleteTransaction
    \/ GetFailingMonthlyReport
    \/ MonthlyCategoryQuery
    \/ GetMonthlyReportStoreFailure
    \/ MonthlyReportStoreFailure
    \/ GetCategoryReportStoreFailure

SpecStoreFailure == Init /\ [][NextStoreFailure]_vars

\* The transactions asked for on every store that creations and deletions
\* build.
NextTransactions ==
    \/ CreateTransaction
    \/ ContinueCreate
    \/ DeleteTransaction
    \/ GetTransactions

SpecTransactions == Init /\ [][NextTransactions]_vars


\* ------------------------------------------------------------------------
\* Calls made beside the calls in progress
\* ------------------------------------------------------------------------

\* The month asked for while other calls write.
InterleavedQueries == { [user_id |-> 1, year |-> 2024, month |-> 1] }

\* The creations beside the calls in progress: a categorised expense and a
\* pooled income of January 2024.
InterleavedInputs ==
    { CreateInput(1, "expense", 3000, Some(2), NULL, NULL, FirstOfJanuary),
      CreateInput(1, "income", 3000, NULL, Some(1), NULL, LastOfJanuary) }

\* The caller has updated the stored row fewer than MaxUpdates times; a
\* call for a row that is not stored is always made.
UpdatesLeft(id) ==
    id \in DOMAIN transactions => transactions[id].updated_at < MaxUpdates

\* The updates beside a report in progress: of the amount and of the
\* category.
InterleavedPatches ==
    { patch \in UpdatePatches :
        \/ "amount" \in DOMAIN patch
        \/ "category_id" \in DOMAIN patch /\ patch.category_id = Some(1) }

BeginMonthlyReport ==
    \E query \in InterleavedQueries : MonthlyTotalsQuery(query)

CreateBeside ==
    \E input \in InterleavedInputs :
        CreateSelectUser(input) /\ UNCHANGED <<updating, inflight, adding>>

BeginUpdateBesideReport ==
    \E id \in TransactionIds, patch \in InterleavedPatches :
        /\ UpdatesLeft(id)
        /\ UpdateSelectExisting(id, patch)
        /\ UNCHANGED <<creating, inflight, adding>>

\* A deletion beside the calls in progress.
DeleteBeside ==
    \E id \in TransactionIds :
        deleteTransaction(id) /\ inflight' = AfterWrite
                              /\ UNCHANGED <<creating, updating, adding>>

\* One monthly report at a time, its three queries interleaved with the
\* statements of creations, updates and deletions.
NextMonthlyInterleaved ==
    \/ BeginMonthlyReport
    \/ MonthlyCategoryQuery
    \/ MonthlyPoolQuery
    \/ CreateBeside
    \/ ContinueCreate
    \/ BeginUpdateBesideReport
    \/ FinishUpdate
    \/ DeleteBeside

SpecMonthlyInterleaved == Init /\ [][NextMonthlyInterleaved]_vars

\* Creations, all of them tried on every store by a caller that awaits each,
\* their statements interleaved with the statements of a second caller's
\* creations and with deletions, with and without the other user and their
\* category.
NextCreate ==
    \/ InsertOtherUser
    \/ InsertOtherCategory
    \/ CreateTransaction
    \/ CreateBeside
    \/ ContinueCreate
    \/ DeleteBeside

SpecCreate == Init /\ [][NextCreate]_vars

\* The creations whose rows the updates are tried on: a payment with a pool,
\* a vendor and an associated person, and a categorised expense.
UpdateTargets ==
    { [CreateInput(1, "payment", 3000, NULL, Some(1), Some(1), LastOfJanuary)
           EXCEPT !.associated_person = Some("Asha")],
      CreateInput(1, "expense", 3000, Some(2), NULL, NULL, FirstOfJanuary) }

\* The creations the store's invariants are tried on: the targets of the
\* updates, a payment with a category, a credit with a vendor and a pool, and
\* a credit with a vendor and an empty associated_person.
StoredInputs ==
    UpdateTargets
    \cup { CreateInput(1, "payment", 2500, Some(2), NULL, NULL, FirstOfJanuary),
           CreateInput(1, "credit", 2500, NULL, Some(3), Some(1), LastOfJanuary),
           [CreateInput(1, "credit", 2500, NULL, NULL, Some(1), LastOfJanuary)
                EXCEPT !.associated_person = Some("")] }

\* The updates tried on the targets: of the amount and the description, of the
\* category, and the clearing of the pool, the vendor and the person.
FramePatches ==
    { patch \in UpdatePatches :
        \/ "amount" \in DOMAIN patch
        \/ "category_id" \in DOMAIN patch
        \/ "vendor_id" \in DOMAIN patch }

\* createTransaction of a target of the updates, begun beside the calls in
\* progress.
CreateUpdateTarget ==
    \E input \in UpdateTargets :
        CreateSelectUser(input) /\ UNCHANGED <<updating, inflight, adding>>

\* updateTransaction begun beside the calls in progress: its select of the
\* existing row.
BeginUpdate ==
    \E id \in TransactionIds, patch \in FramePatches :
        /\ UpdatesLeft(id)
        /\ UpdateSelectExisting(id, patch)
        /\ UNCHANGED <<creating, inflight, adding>>

\* One update at a time, its two statements interleaved with the statements
\* of creations and with deletions.
NextUpdate ==
    \/ CreateUpdateTarget
    \/ ContinueCreate
    \/ BeginUpdate
    \/ FinishUpdate
    \/ DeleteBeside

SpecUpdate == Init /\ [][NextUpdate]_vars

\* createTransaction of a row the store's invariants are tried on.
CreateStoredTransaction ==
    \E input \in StoredInputs :
        CreateSelectUser(input) /\ UNCHANGED <<updating, inflight, adding>>

\* updateTransaction of a row the store's invariants are tried on.
BeginStoredUpdate ==
    \E id \in TransactionIds, patch \in UpdatePatches :
        /\ UpdatesLeft(id)
        /\ UpdateSelectExisting(id, patch)
        /\ UNCHANGED <<creating, inflight, adding>>

\* The store as creations, updates and deletions change it, their statements
\* interleaved.
NextStore ==
    \/ CreateStoredTransaction
    \/ ContinueCreate
    \/ BeginStoredUpdate
    \/ FinishUpdate
    \/ DeleteBeside

SpecStore == Init /\ [][NextStore]_vars

\* createVendor inputs: of the seeded user and of the other user, with and
\* without a description.
VendorInputs ==
    { [user_id |-> u, name |-> "Grocer", description |-> d] :
        u \in {1, OtherUser}, d \in {NULL, Some("Weekly shop")} }

\* createPool inputs: of the seeded user and of the other user.
PoolInputs ==
    { [user_id |-> u, name |-> "Travel", type |-> t, description |-> NULL] :
        u \in {1, OtherUser}, t \in {"expense", "payment"} }

\* createBudget inputs: for a seeded pool, for the pool createPool adds and
\* for no pool, of 5000 and of 50000.75, for January 2024.
BudgetInputs ==
    { [pool_id |-> p, target_amount |-> a,
       period_start |-> FirstOfJanuary, period_end |-> LastOfJanuary] :
        p \in {2, 5, 9}, a \in {Number(5000), ParseFloat(5000075)} }

\* createVendor begun beside the calls in progress: its select of the user.
CreateVendor ==
    \E input \in VendorInputs :
        /\ nextIds.vendors < SeedNextIds.vendors + MaxCatalog
        /\ CreateVendorSelectUser(input)
        /\ UNCHANGED <<creating, updating, inflight>>

\* The insert of the createVendor call in progress.
ContinueCreateVendor ==
    CreateVendorInsert /\ UNCHANGED <<creating, updating, inflight>>

CreatePool ==
    \E input \in PoolInputs :
        /\ nextIds.pools < SeedNextIds.pools + MaxCatalog
        /\ createPool(input)
        /\ UNCHANGED calls

CreateBudget ==
    \E input \in BudgetInputs :
        /\ nextIds.budgets < SeedNextIds.budgets + MaxCatalog
        /\ createBudget(input)
        /\ UNCHANGED calls

\* The catalogue as createVendor, createPool and createBudget change it, and
\* the transactions created, updated and deleted beside them.
NextCatalog ==
    \/ InsertOtherUser
    \/ CreateVendor
    \/ ContinueCreateVendor
    \/ CreatePool
    \/ CreateBudget
    \/ CreateStoredTransaction
    \/ ContinueCreate
    \/ DeleteBeside

SpecCatalog == Init /\ [][NextCatalog]_vars

\* Every step of the model.
Next ==
    \/ InsertOtherUser
    \/ InsertOtherCategory
    \/ CreateVendor
    \/ ContinueCreateVendor
    \/ CreatePool
    \/ CreateBudget
    \/ CreateTransaction
    \/ CreateReportedTransaction
    \/ CreateCentsTransaction
    \/ CreateUpdateTarget
    \/ CreateStoredTransaction
    \/ CreateBeside
    \/ ContinueCreate
    \/ BeginUpdate
    \/ BeginStoredUpdate
    \/ BeginUpdateBesideReport
    \/ FinishUpdate
    \/ DeleteTransaction
    \/ DeleteBeside
    \/ GetMonthlyReport
    \/ GetFailingMonthlyReport
    \/ BeginMonthlyReport
    \/ MonthlyCategoryQuery
    \/ MonthlyPoolQuery
    \/ GetCategoryReport
    \/ GetTransactions
    \/ GetMonthlyReportStoreFailure
    \/ MonthlyReportStoreFailure
    \/ GetCategoryReportStoreFailure

Spec == Init /\ [][Next]_vars

\* The whole history asked for on the stores with cents.
GetCategoryReportCents ==
    \E query \in CentsQueries :
        \E results \in ResultOrders(transactions, query) :
            Awaited /\ getCategoryReport(query, NoFailure, results)
                    /\ UNCHANGED calls

\* The stores of expenses with cents: every row as createTransaction inserts it
\* for the first user, the expense category and an amount of 0.1, 0.2 or 0.3.
InitCents ==
    /\ users = SeedUsers
    /\ categories = SeedCategories
    /\ vendors = SeedVendors
    /\ pools = SeedPools
    /\ budgets = << >>
    /\ nextIds = SeedNextIds
    /\ transactions \in [CentsIds -> {CentsRow(a) : a \in CentsAmounts}]
    /\ nextTxId = MaxTx + 2
    /\ response = [op |-> "none"]
    /\ creating = EmptyBag
    /\ updating = Idle
    /\ inflight = Idle
    /\ adding = Idle

\* The row of CentsRow dated on the given day.
CentsRowOn(amount, date) ==
    [CentsRow(amount) EXCEPT !.transaction_date = date]

\* The stores of expenses with cents of one category over two months: every
\* row an amount of 0.1, 0.2 or 0.3 on the first of January or of February.
InitCentsMonths ==
    /\ users = SeedUsers
    /\ categories = SeedCategories
    /\ vendors = SeedVendors
    /\ pools = SeedPools
    /\ budgets = << >>
    /\ nextIds = SeedNextIds
    /\ transactions \in [CentsIds -> {CentsRowOn(a, d) :
                            a \in CentsAmounts,
                            d \in {FirstOfJanuary, FirstOfFebruary}}]
    /\ nextTxId = MaxTx + 2
    /\ response = [op |-> "none"]
    /\ creating = EmptyBag
    /\ updating = Idle
    /\ inflight = Idle
    /\ adding = Idle

\* The amounts whose average is taken, in hundredths: 0.07 and 0.1, and
\* 2500 and 3000.
AverageCents == {7, 10}

AverageWholes == {250000, 300000}

\* The stores of expenses of one category whose amounts are 0.07 or 0.1, and
\* those whose amounts are 2500 or 3000, every row as createTransaction
\* inserts it.
InitAverages ==
    /\ users = SeedUsers
    /\ categories = SeedCategories
    /\ vendors = SeedVendors
    /\ pools = SeedPools
    /\ budgets = << >>
    /\ nextIds = SeedNextIds
    /\ transactions \in [CentsIds -> {CentsRow(a) : a \in AverageCents}]
                        \cup [CentsIds -> {CentsRow(a) : a \in AverageWholes}]
    /\ nextTxId = MaxTx + 2
    /\ response = [op |-> "none"]
    /\ creating = EmptyBag
    /\ updating = Idle
    /\ inflight = Idle
    /\ adding = Idle

\* The category report asked of the stores with cents, and deletions.
NextCents ==
    \/ DeleteTransaction
    \/ GetCategoryReportCents

SpecCents == InitCents /\ [][NextCents]_vars

SpecCentsMonths == InitCentsMonths /\ [][NextCents]_vars

SpecAverages == InitAverages /\ [][NextCents]_vars

\* ------------------------------------------------------------------------
\* Properties of getMonthlyReport
\* ------------------------------------------------------------------------

IsMonthlyReport == response.op = "getMonthlyReport" /\ response.ok

\* A transaction's date lies in calendar month m (1 = January) of year y.
InCalendarMonth(date, y, m) == GetFullYear(date) = y /\ GetMonth(date) + 1 = m

\* The stored transactions of user u dated in month (y, m).
OfUserInMonth(u, y, m) ==
    { id \in DOMAIN transactions :
        /\ transactions[id].user_id = u
        /\ InCalendarMonth(transactions[id].transaction_date, y, m) }

RECURSIVE StoredSum(_)
\* The sum of the stored amounts (hundredths) of the given transactions.
StoredSum(ids) ==
    IF ids = {} THEN 0
    ELSE LET i == CHOOSE x \in ids : TRUE
         IN  transactions[i].amount + StoredSum(ids \ {i})

OfType(ids, ty) == { id \in ids : transactions[id].type = ty }

RECURSIVE SumOfCounts(_)
\* The sum of transactionCount over a set of breakdown entries.
SumOfCounts(entries) ==
    IF entries = {} THEN 0
    ELSE LET e == CHOOSE x \in entries : TRUE
         IN  e.transactionCount + SumOfCounts(entries \ {e})

\* C1: for a month in 1..12, the four totals of the monthly report are the sums
\* of amount over the user's transactions of type income, expense, credit and
\* payment dated in that month, each as the number parseFloat reads from the
\* sum, and transactionCount is the number of the user's transactions of any
\* type dated in that month.
C1_TotalsByType ==
    (IsMonthlyReport /\ response.query.month \in 1 .. 12) =>
        LET q == response.query
            r == response.value
            S == OfUserInMonth(q.user_id, q.year, q.month)
        IN  /\ r.totalIncome = ParseFloat(StoredSum(OfType(S, "income")))
            /\ r.totalExpenses = ParseFloat(StoredSum(OfType(S, "expense")))
            /\ r.totalCredit = ParseFloat(StoredSum(OfType(S, "credit")))
            /\ r.totalPayments = ParseFloat(StoredSum(OfType(S, "payment")))
            /\ r.transactionCount = Cardinality(S)

\* Two expenses of one month summed, 2500 and 3000.
C1_Witness ==
    /\ IsMonthlyReport
    /\ response.query.month \in 1 .. 12
    /\ response.value.totalExpenses = Number(5500)
    /\ response.value.transactionCount = 2

\* C2: every monthly report has netAmount = totalIncome + totalPayments
\* - totalExpenses - totalCredit, the sum and the differences those of
\* JavaScript numbers.
C2_NetAmount ==
    IsMonthlyReport =>
        LET r == response.value
        IN  r.netAmount = Minus(Minus(Plus(r.totalIncome, r.totalPayments),
                                      r.totalExpenses),
                                r.totalCredit)

\* A report in which a payment adds and an expense subtracts.
C2_Witness ==
    /\ IsMonthlyReport
    /\ response.value.totalPayments # Number(0)
    /\ response.value.totalExpenses # Number(0)
    /\ response.value.netAmount # Number(0)

\* a is strictly earlier than b.
Earlier(a, b) == a.day < b.day \/ (a.day = b.day /\ a.ms < b.ms)

\* 00:00:00.000 of the first day of month (y, m), m in 1..12.
FirstInstantOfMonth(y, m) ==
    [day |-> DayFromYear(y) + DaysBeforeMonth(y, m - 1), ms |-> 0]

\* 23:59:59.999 of the last day of month (y, m), m in 1..12.
LastInstantOfMonth(y, m) ==
    [day |-> DayFromYear(y) + DaysBeforeMonth(y, m) - 1, ms |-> msPerDay - 1]

\* The stored transactions of user u dated from the first instant to the last
\* millisecond of month (y, m), both included.
InWindow(u, y, m) ==
    { id \in DOMAIN transactions :
        /\ transactions[id].user_id = u
        /\ ~Earlier(transactions[id].transaction_date, FirstInstantOfMonth(y, m))
        /\ ~Earlier(LastInstantOfMonth(y, m), transactions[id].transaction_date) }

\* C3: the monthly report counts a transaction of the user if and only if its
\* date is at or after the first instant of the month and at or before the last
\* millisecond of its last day; a transaction of the previous or the next
\* month contributes to no total, count or breakdown.
C3_MonthWindow ==
    (IsMonthlyReport /\ response.query.month \in 1 .. 12) =>
        LET q == response.query
            r == response.value
            W == InWindow(q.user_id, q.year, q.month)
        IN  /\ r.transactionCount = Cardinality(W)
            /\ r.totalIncome = ParseFloat(StoredSum(OfType(W, "income")))
            /\ r.totalExpenses = ParseFloat(StoredSum(OfType(W, "expense")))
            /\ r.totalCredit = ParseFloat(StoredSum(OfType(W, "credit")))
            /\ r.totalPayments = ParseFloat(StoredSum(OfType(W, "payment")))
            /\ SumOfCounts(r.categoryBreakdown)
                   = Cardinality({id \in W : transactions[id].category_id # NULL})
            /\ SumOfCounts(r.poolBreakdown)
                   = Cardinality({id \in W : transactions[id].pool_id # NULL})

\* January asked for while the user holds a transaction of the last
\* millisecond of January and one of the first instant of February.
C3_Witness ==
    /\ IsMonthlyReport
    /\ response.query.month = 1
    /\ response.query.year = 2024
    /\ response.value.transactionCount = 1
    /\ \E i, j \in DOMAIN transactions :
          /\ transactions[i].user_id = response.query.user_id
          /\ transactions[j].user_id = response.query.user_id
          /\ transactions[i].transaction_date = LastOfJanuary
          /\ transactions[j].transaction_date = FirstOfFebruary

\* C4: categoryBreakdown has exactly one entry per category that an in-window
\* transaction of the user references; the entry sums and counts those
\* transactions and takes its name and type from the category row;
\* transactions without a category are in no entry.
C4_CategoryBreakdown ==
    (IsMonthlyReport /\ response.query.month \in 1 .. 12) =>
        LET q == response.query
            r == response.value
            S == OfUserInMonth(q.user_id, q.year, q.month)
            cats == {transactions[id].category_id : id \in S} \ {NULL}
            of(c) == {id \in S : transactions[id].category_id = Some(c)}
        IN  /\ {Some(e.categoryId) : e \in r.categoryBreakdown} = cats
            /\ Cardinality(r.categoryBreakdown) = Cardinality(cats)
            /\ \A e \in r.categoryBreakdown :
                  /\ e.totalAmount = ParseFloat(StoredSum(of(e.categoryId)))
                  /\ e.transactionCount = Cardinality(of(e.categoryId))
                  /\ e.categoryName = categories[e.categoryId].name
                  /\ e.type = categories[e.categoryId].type

\* A breakdown whose one entry holds a transaction of another type than the
\* category's, beside a transaction without a category.
C4_Witness ==
    /\ IsMonthlyReport
    /\ response.query.month \in 1 .. 12
    /\ response.value.transactionCount = 2
    /\ \E e \in response.value.categoryBreakdown :
          /\ e.transactionCount = 1
          /\ \E id \in DOMAIN transactions :
                /\ transactions[id].user_id = response.query.user_id
                /\ transactions[id].category_id = Some(e.categoryId)
                /\ transactions[id].type # e.type
    /\ Cardinality(response.value.categoryBreakdown) = 1

\* C5: poolBreakdown has exactly one entry per pool that an in-window
\* transaction of the user references; the entry sums and counts those
\* transactions whatever their type and takes its name and type from the
\* pool row.
C5_PoolBreakdown ==
    (IsMonthlyReport /\ response.query.month \in 1 .. 12) =>
        LET q == response.query
            r == response.value
            S == OfUserInMonth(q.user_id, q.year, q.month)
            ps == {transactions[id].pool_id : id \in S} \ {NULL}
            of(p) == {id \in S : transactions[id].pool_id = Some(p)}
        IN  /\ {Some(e.poolId) : e \in r.poolBreakdown} = ps
            /\ Cardinality(r.poolBreakdown) = Cardinality(ps)
            /\ \A e \in r.poolBreakdown :
                  /\ e.totalAmount = ParseFloat(StoredSum(of(e.poolId)))
                  /\ e.transactionCount = Cardinality(of(e.poolId))
                  /\ e.poolName = pools[e.poolId].name
                  /\ e.type = pools[e.poolId].type

\* A pool entry that counts two transactions, one of them of another type
\* than the pool's.
C5_Witness ==
    /\ IsMonthlyReport
    /\ response.query.month \in 1 .. 12
    /\ \E e \in response.value.poolBreakdown :
          /\ e.transactionCount = 2
          /\ \E id \in DOMAIN transactions :
                /\ transactions[id].user_id = response.query.user_id
                /\ transactions[id].pool_id = Some(e.poolId)
                /\ transactions[id].type # e.type

\* C6: in every monthly report the transactionCount of the category entries
\* sums to at most transactionCount, and so does that of the pool entries.
C6_BreakdownCounts ==
    IsMonthlyReport =>
        /\ SumOfCounts(response.value.categoryBreakdown)
               <= response.value.transactionCount
        /\ SumOfCounts(response.value.poolBreakdown)
               <= response.value.transactionCount

\* Two transactions of two types, both categorised and one pooled.
C6_Witness ==
    /\ IsMonthlyReport
    /\ response.value.transactionCount = 2
    /\ SumOfCounts(response.value.categoryBreakdown) = 2
    /\ SumOfCounts(response.value.poolBreakdown) = 1
    /\ response.value.totalExpenses # Number(0)
    /\ response.value.totalIncome # Number(0)

\* C17: a monthly report for a month outside 1..12 is returned, not thrown,
\* and rolls over: month 13 of year y gives the report of month 1 of y + 1
\* and month 0 of y the report of month 12 of y - 1, which counts the user's
\* transactions of that calendar month.
C17_MonthRollover ==
    (response.op = "getMonthlyReport" /\ response.query.month \notin 1 .. 12) =>
        LET q == response.query
            rolled == IF q.month = 13
                      THEN [q EXCEPT !.year = @ + 1, !.month = 1]
                      ELSE [q EXCEPT !.year = @ - 1, !.month = 12]
        IN  /\ q.month \in {0, 13}
            /\ response.ok
            /\ response.value = MonthlyReport(transactions, rolled)
            /\ response.value.transactionCount
                   = Cardinality(OfUserInMonth(q.user_id, rolled.year, rolled.month))

\* Month 13 of 2023 asked by a user who holds a transaction of January 2024,
\* which is counted, and one of December 2023, which is not.
C17_Witness ==
    /\ IsMonthlyReport
    /\ response.query.year = 2023
    /\ response.query.month = 13
    /\ response.value.transactionCount = 1
    /\ \E i, j \in DOMAIN transactions :
          /\ transactions[i].user_id = response.query.user_id
          /\ transactions[j].user_id = response.query.user_id
          /\ transactions[i].transaction_date = FirstOfJanuary
          /\ transactions[j].transaction_date = LastOfDecember

\* ------------------------------------------------------------------------
\* Properties of getCategoryReport
\* ------------------------------------------------------------------------

IsCategoryReport == response.op = "getCategoryReport" /\ response.ok

\* The stored transactions a category report query asks for: the user's, of
\* type income, expense or credit, with a category, dated within the bounds
\* that are given (bounds included).
CategoryMatching(q) ==
    { id \in DOMAIN transactions :
        /\ transactions[id].user_id = q.user_id
        /\ transactions[id].type \in CategoryTypes
        /\ transactions[id].category_id # NULL
        /\ ("start_date" \in DOMAIN q
                => ~Earlier(transactions[id].transaction_date, q.start_date))
        /\ ("end_date" \in DOMAIN q
                => ~Earlier(q.end_date, transactions[id].transaction_date)) }

\* The entries of a report's categories.
EntriesOf(report) == { report.categories[i] : i \in 1 .. Len(report.categories) }

ZeroMonthlyReport ==
    [totalIncome |-> Number(0), totalExpenses |-> Number(0),
     totalCredit |-> Number(0), totalPayments |-> Number(0),
     netAmount |-> Number(0), transactionCount |-> 0,
     categoryBreakdown |-> {}, poolBreakdown |-> {}]

ZeroCategoryReport ==
    [categories |-> << >>,
     totalsByType |-> [income |-> Number(0), expense |-> Number(0),
                       credit |-> Number(0)]]

RECURSIVE AddedInOrder(_)
\* The amounts of the stored rows with the given ids, each as parseFloat reads
\* it, added as JavaScript numbers in the order given.
AddedInOrder(ids) ==
    IF ids = << >> THEN Number(0)
    ELSE Plus(AddedInOrder(SubSeq(ids, 1, Len(ids) - 1)),
              ParseFloat(transactions[ids[Len(ids)]].amount))

\* The rows the store returned to the category report, in their order, that
\* are among the given ones.
ReturnedAmong(ids) == SelectSeq(response.results, LAMBDA id : id \in ids)

RECURSIVE SumOfTotals(_)
\* The totalAmount of a sequence of entries added as JavaScript numbers in
\* the order given.
SumOfTotals(entries) ==
    IF entries = << >> THEN Number(0)
    ELSE Plus(SumOfTotals(SubSeq(entries, 1, Len(entries) - 1)),
              entries[Len(entries)].totalAmount)

\* The entries of a report whose type is X, in the report's order.
EntriesOfType(report, X) == SelectSeq(report.categories, LAMBDA e : e.type = X)

\* C7: when no stored transaction matches the query, the report is returned,
\* not thrown: the monthly report has every total, netAmount and
\* transactionCount 0 and both breakdowns empty; the category report has no
\* categories and totalsByType 0 for income, expense and credit.
C7_EmptyReport ==
    /\ ( /\ response.op = "getMonthlyReport"
         /\ response.query.month \in 1 .. 12
         /\ OfUserInMonth(response.query.user_id, response.query.year,
                          response.query.month) = {} )
           => (response.ok /\ response.value = ZeroMonthlyReport)
    /\ ( /\ response.op = "getCategoryReport"
         /\ CategoryMatching(response.query) = {} )
           => (response.ok /\ response.value = ZeroCategoryReport)

\* An empty category report for a date range, asked by a user who holds a
\* categorised expense outside the range.
C7_Witness ==
    /\ IsCategoryReport
    /\ response.value = ZeroCategoryReport
    /\ "start_date" \in DOMAIN response.query
    /\ "end_date" \in DOMAIN response.query
    /\ \E id \in DOMAIN transactions :
          /\ transactions[id].user_id = response.query.user_id
          /\ transactions[id].type = "expense"
          /\ transactions[id].category_id # NULL

\* C8: the category report aggregates exactly the user's transactions of type
\* income, expense or credit that have a category and are dated within the
\* given bounds, bounds included; nothing else is in an entry or a total:
\* every entry counts and adds those of its category, and every total adds
\* the entries of its type.
C8_CategoryReportFilter ==
    IsCategoryReport =>
        LET q == response.query
            r == response.value
            M == CategoryMatching(q)
            of(c) == {id \in M : transactions[id].category_id = Some(c)}
        IN  /\ {Some(e.categoryId) : e \in EntriesOf(r)}
                   = {transactions[id].category_id : id \in M}
            /\ Len(r.categories)
                   = Cardinality({transactions[id].category_id : id \in M})
            /\ \A e \in EntriesOf(r) :
                  /\ e.transactionCount = Cardinality(of(e.categoryId))
                  /\ e.totalAmount
                         = AddedInOrder(ReturnedAmong(of(e.categoryId)))
            /\ \A X \in CategoryTypes :
                  r.totalsByType[X] = SumOfTotals(EntriesOfType(r, X))

\* A range whose end is the date of one transaction, which is counted, and
\* whose start is later than the other, which is not.
C8_Witness ==
    /\ IsCategoryReport
    /\ "start_date" \in DOMAIN response.query
    /\ "end_date" \in DOMAIN response.query
    /\ Len(response.value.categories) = 1
    /\ response.value.categories[1].transactionCount = 1
    /\ \E i, j \in DOMAIN transactions :
          /\ transactions[i].user_id = response.query.user_id
          /\ transactions[j].user_id = response.query.user_id
          /\ transactions[i].category_id = transactions[j].category_id
          /\ transactions[i].transaction_date = response.query.end_date
          /\ Earlier(transactions[j].transaction_date, response.query.start_date)

\* The stored table without its payment rows.
WithoutPayments ==
    [id \in {i \in DOMAIN transactions : transactions[i].type # "payment"}
        |-> transactions[id]]

\* C9: a payment contributes to nothing in a category report, even when its
\* row carries a category_id: the report is the one the store gives without
\* its payments, and every entry holds a transaction that is no payment.
C9_PaymentsExcluded ==
    IsCategoryReport =>
        /\ response.results \in ResultOrders(WithoutPayments, response.query)
        /\ response.value = CategoryReport(WithoutPayments, response.results)
        /\ \A e \in EntriesOf(response.value) :
              e.transactionCount
                  <= Cardinality({id \in DOMAIN transactions :
                        /\ transactions[id].user_id = response.query.user_id
                        /\ transactions[id].category_id = Some(e.categoryId)
                        /\ transactions[id].type # "payment"})

\* A report asked by a user who holds a payment carrying a category and an
\* expense of the same category: the entry counts one transaction.
C9_Witness ==
    /\ IsCategoryReport
    /\ Len(response.value.categories) = 1
    /\ response.value.categories[1].transactionCount = 1
    /\ \E i \in DOMAIN transactions :
          /\ transactions[i].user_id = response.query.user_id
          /\ transactions[i].type = "payment"
          /\ transactions[i].category_id
                 = Some(response.value.categories[1].categoryId)
          /\ ("start_date" \in DOMAIN response.query
                 => ~Earlier(transactions[i].transaction_date,
                             response.query.start_date))
          /\ ("end_date" \in DOMAIN response.query
                 => ~Earlier(response.query.end_date,
                             transactions[i].transaction_date))

\* The magnitude of the number x as a numeral scaled by 2^-k, k not below the
\* number of digits x has after the point.
Scaled(x, k) == BitsOfNat(x.int) \o x.frac \o Zeros(k - Len(x.frac))

\* The numeral with zeros before it up to the given length.
Padded(s, len) == Zeros(len - Len(s)) \o s

\* The numeral a stands for no more than the numeral b.
AtMost(a, b) ==
    LET len == IF Len(a) > Len(b) THEN Len(a) ELSE Len(b)
    IN  ~BitsGreater(Padded(a, len), Padded(b, len))

\* The numeral of the difference of the numerals a and b.
Distance(a, b) ==
    LET len == IF Len(a) > Len(b) THEN Len(a) ELSE Len(b)
        pa == Padded(a, len)
        pb == Padded(b, len)
    IN  IF BitsGreater(pa, pb) THEN SubBits(pa, pb) ELSE SubBits(pb, pa)

\* The unit in the last place of the double x is 2^-UlpDigits(x): the
\* significand holds Precision digits from the first 1 of x on.
UlpDigits(x) ==
    Len(x.frac) + Precision - Len(StripZeros(BitsOfNat(x.int) \o x.frac))

\* What quotient * count, not rounded, differs from total by, as a numeral
\* scaled by 2^-k, k the larger number of digits after the point.
ProductError(quotient, count, total) ==
    LET k == IF Len(quotient.frac) > Len(total.frac)
             THEN Len(quotient.frac) ELSE Len(total.frac)
    IN  Distance(ProductBits(Scaled(quotient, k), count), Scaled(total, k))

\* quotient lies within half a unit of its last place of total / count:
\* |quotient * count - total| * 2 <= count * 2^-UlpDigits(quotient).
WithinRounding(quotient, count, total) ==
    LET k == IF Len(quotient.frac) > Len(total.frac)
             THEN Len(quotient.frac) ELSE Len(total.frac)
    IN  /\ quotient.neg = total.neg
        /\ AtMost(ProductError(quotient, count, total)
                      \o Zeros(UlpDigits(quotient) + 1),
                  BitsOfNat(count) \o Zeros(k))

\* quotient * count, not rounded, is total.
ExactProduct(quotient, count, total) ==
    LET k == IF Len(quotient.frac) > Len(total.frac)
             THEN Len(quotient.frac) ELSE Len(total.frac)
    IN  /\ quotient.neg = total.neg
        /\ StripZeros(ProductBits(Scaled(quotient, k), count))
               = StripZeros(Scaled(total, k))

\* The sum of the amounts of the included transactions of the entry's
\* category, added as JavaScript numbers in the order the store returned them.
SumOfCategory(e) ==
    AddedInOrder(ReturnedAmong(
        {id \in CategoryMatching(response.query) :
            transactions[id].category_id = Some(e.categoryId)}))

\* C10 as stated: every entry of categories has transactionCount >= 1,
\* totalAmount the sum of the amounts of the included transactions of its
\* category, and an averageAmount that multiplied by transactionCount, as
\* JavaScript multiplies, gives totalAmount.
C10_AverageTimesCount ==
    IsCategoryReport =>
        \A e \in EntriesOf(response.value) :
            /\ e.transactionCount >= 1
            /\ e.totalAmount = SumOfCategory(e)
            /\ Times(e.averageAmount, e.transactionCount) = e.totalAmount

\* C10: every entry of categories has transactionCount >= 1, totalAmount the
\* sum of the amounts of the included transactions of its category, added as
\* JavaScript numbers in the order the store returned them, and averageAmount
\* the double nearest to totalAmount / transactionCount: averageAmount times
\* transactionCount differs from totalAmount by at most transactionCount
\* halves of a unit in the last place of averageAmount, and is totalAmount
\* when transactionCount is 1 or 2 or divides a whole totalAmount, so that
\* 3000 and 2500 give 5500, 2 and 2750.
C10_AverageAmount ==
    IsCategoryReport =>
        \A e \in EntriesOf(response.value) :
            /\ e.transactionCount >= 1
            /\ e.totalAmount = SumOfCategory(e)
            /\ WithinRounding(e.averageAmount, e.transactionCount,
                              e.totalAmount)
            /\ (\/ e.transactionCount \in {1, 2}
                \/ /\ IsWhole(e.totalAmount)
                   /\ e.totalAmount.int % e.transactionCount = 0)
                   => /\ ExactProduct(e.averageAmount, e.transactionCount,
                                       e.totalAmount)
                      /\ Times(e.averageAmount, e.transactionCount)
                             = e.totalAmount
            /\ (e.totalAmount = Number(5500) /\ e.transactionCount = 2)
                   => e.averageAmount = Number(2750)

\* Three expenses of 0.1, 0.07 and 0.07 in one category: their total is not
\* 0.24 but the double above it, their average is 0.08, and 0.08 times 3 is
\* 0.24.
C10_Witness ==
    /\ IsCategoryReport
    /\ \E e \in EntriesOf(response.value) :
          /\ e.transactionCount = 3
          /\ e.averageAmount = ParseFloat(8)
          /\ Times(e.averageAmount, 3) = ParseFloat(24)
          /\ e.totalAmount # ParseFloat(24)

\* (year, month) of a lies strictly before (year, month) of b.
MonthBefore(a, b) == a.year < b.year \/ (a.year = b.year /\ a.month < b.month)

\* C11: in every entry of categories, monthlyBreakdown is strictly ascending
\* by year, then month, so that no (year, month) pair occurs twice, whatever
\* the order in which the transactions were inserted.
C11_MonthlyBreakdownOrder ==
    IsCategoryReport =>
        \A e \in EntriesOf(response.value) :
            \A i, j \in 1 .. Len(e.monthlyBreakdown) :
                i < j => MonthBefore(e.monthlyBreakdown[i], e.monthlyBreakdown[j])

\* A category whose January 2024 transaction was inserted before its December
\* 2023 one: the breakdown lists 2023-12, then 2024-1.
C11_Witness ==
    /\ IsCategoryReport
    /\ \E e \in EntriesOf(response.value) :
          /\ Len(e.monthlyBreakdown) = 2
          /\ e.monthlyBreakdown[1].year = 2023
          /\ e.monthlyBreakdown[1].month = 12
          /\ e.monthlyBreakdown[2].year = 2024
          /\ e.monthlyBreakdown[2].month = 1
          /\ \E i, j \in DOMAIN transactions :
                /\ i < j
                /\ transactions[i].category_id = Some(e.categoryId)
                /\ transactions[j].category_id = Some(e.categoryId)
                /\ transactions[i].transaction_date = FirstOfJanuary
                /\ transactions[j].transaction_date = LastOfDecember

\* C12: in every category report, totalsByType.X is the sum of totalAmount
\* over the entries whose type is X, added as JavaScript numbers in the
\* report's order, for X income, expense and credit, and 0 when there is no
\* such entry.
C12_TotalsByType ==
    IsCategoryReport =>
        LET r == response.value
        IN  /\ DOMAIN r.totalsByType = CategoryTypes
            /\ \A X \in CategoryTypes :
                  /\ r.totalsByType[X] = SumOfTotals(EntriesOfType(r, X))
                  /\ ({e \in EntriesOf(r) : e.type = X} = {}
                         => r.totalsByType[X] = Number(0))

\* Two income categories of 3000 and 2500 and no expense or credit entry.
C12_Witness ==
    /\ IsCategoryReport
    /\ Len(response.value.categories) = 2
    /\ \A e \in EntriesOf(response.value) : e.type = "income"
    /\ response.value.totalsByType
           = [income |-> Number(5500), expense |-> Number(0),
              credit |-> Number(0)]

\* ------------------------------------------------------------------------
\* Properties of both reports
\* ------------------------------------------------------------------------

\* The stored table without the rows of every user but u.
OwnRows(u) ==
    [id \in {i \in DOMAIN transactions : transactions[i].user_id = u}
        |-> transactions[id]]

\* C13: a report for user u is the report of the store without the other
\* users' transactions, so two stores that differ only in transactions of
\* other users give u the same monthly report and the same category report.
C13_UserIsolation ==
    /\ IsMonthlyReport =>
           response.value
               = MonthlyReport(OwnRows(response.query.user_id), response.query)
    /\ IsCategoryReport =>
           /\ response.results
                  \in ResultOrders(OwnRows(response.query.user_id), response.query)
           /\ response.value
                  = CategoryReport(OwnRows(response.query.user_id),
                                   response.results)

\* A monthly report for a user holding one transaction in the month, while
\* another user holds a transaction of the same month and the same category.
C13_Witness ==
    /\ IsMonthlyReport
    /\ response.value.transactionCount = 1
    /\ \E i, j \in DOMAIN transactions :
          /\ transactions[i].user_id = response.query.user_id
          /\ transactions[j].user_id # response.query.user_id
          /\ transactions[i].category_id = transactions[j].category_id
          /\ transactions[i].category_id # NULL
          /\ Gte(transactions[j].transaction_date, MonthStartDate(response.query))
          /\ Lte(transactions[j].transaction_date, MonthEndDate(response.query))
          /\ Gte(transactions[i].transaction_date, MonthStartDate(response.query))
          /\ Lte(transactions[i].transaction_date, MonthEndDate(response.query))

ReportOps == {"getMonthlyReport", "getCategoryReport"}

\* C18: every statement of a call of getMonthlyReport or getCategoryReport,
\* the call returning a report or failing, leaves the users, categories,
\* vendors, pools, budgets and transactions tables as they were.
C18_ReportsReadOnly ==
    [][( \/ \E query \in MonthlyQueries :
              MonthlyTotalsQuery(query) \/ MonthlyTotalsQueryFails(query)
         \/ MonthlyCategoryQuery
         \/ MonthlyPoolQuery
         \/ MonthlyLaterQueryFails
         \/ response'.op \in ReportOps )
       => UNCHANGED tables]_vars

\* A report call that failed on a store holding two transactions of the
\* asking user.
C18_Witness ==
    /\ response.op \in ReportOps
    /\ ~response.ok
    /\ Cardinality({id \in DOMAIN transactions :
                       transactions[id].user_id = response.query.user_id}) = 2

\* The store failed a query of the call.
StoreFailed ==
    \E i \in DOMAIN response.issued : response.issued[i].outcome = "failed"

\* C19: when the store fails a query of a report call, the call throws that
\* query's error and returns no report; the failed query is the last one the
\* call executed and no query was executed twice.
C19_StoreFailurePropagates ==
    (response.op \in ReportOps /\ StoreFailed) =>
        LET issued == response.issued
            k == CHOOSE i \in DOMAIN issued : issued[i].outcome = "failed"
        IN  /\ ~response.ok
            /\ "value" \notin DOMAIN response
            /\ response.error = StoreError(issued[k].query)
            /\ k = Len(issued)
            /\ \A i, j \in DOMAIN issued :
                  issued[i].query = issued[j].query => i = j

\* The pool query failed after the totals and the category query had
\* succeeded, for a user holding a categorised and pooled transaction of the
\* month.
C19_Witness ==
    /\ response.op = "getMonthlyReport"
    /\ ~response.ok
    /\ response.error = StoreError("poolQuery")
    /\ Len(response.issued) = 3
    /\ \E id \in BaseConditions(transactions, response.query) :
          /\ transactions[id].pool_id # NULL
    /\ \E id \in BaseConditions(transactions, response.query) :
          /\ transactions[id].category_id # NULL

\* ------------------------------------------------------------------------
\* Properties of the transaction store
\* ------------------------------------------------------------------------

\* C14: every stored transaction that has a category is of type income,
\* expense or credit and of the category's type, and every stored transaction
\* that has a vendor is a payment.
C14_CategoryAndVendorMatchType ==
    \A id \in DOMAIN transactions :
        LET t == transactions[id]
        IN  /\ t.category_id # NULL =>
                  /\ t.type \in CategoryTypes
                  /\ categories[ValueOf(t.category_id)].type = t.type
            /\ t.vendor_id # NULL => t.type = "payment"

\* The input is of type income, expense or credit and names a category of
\* another type.
CategoryTypeMismatch(input) ==
    /\ input.type \in CategoryTypes
    /\ input.category_id # NULL
    /\ input.category_id \subseteq DOMAIN categories
    /\ categories[ValueOf(input.category_id)].type # input.type

\* The error the handler throws for a category of another type.
MismatchError(input) ==
    <<"Category type", categories[ValueOf(input.category_id)].type,
      "does not match transaction type", input.type>>

\* The first statement of a call with this input finds no user: the call
\* throws at once.
ThrowsAtOnce(input) == input.user_id \notin users /\ CreateSelectUser(input)

\* C15 as stated: createTransaction with type income, expense or credit and a
\* category of another type ends with the category-type-mismatch error, and
\* none of its statements changes the transactions table.
C15_MismatchErrorAlways ==
    [][/\ \A input \in CreateInputs :
              (CategoryTypeMismatch(input) /\ ThrowsAtOnce(input)) =>
                  /\ response'.error = MismatchError(input)
                  /\ transactions' = transactions
       /\ \A call \in BagToSet(creating) :
              (CategoryTypeMismatch(call.input) /\ CreateStatement(call)) =>
                  /\ transactions' = transactions
                  /\ creating' = Ended(call) =>
                         /\ ~response'.ok
                         /\ response'.error = MismatchError(call.input)]_vars

\* C15, amended: createTransaction with type income, expense or credit and a
\* category of another type ends by throwing, and none of its statements
\* changes the transactions table; the error is the category-type-mismatch
\* error when user_id names a user and pool_id, if given, names a pool, and
\* otherwise the error of the user or of the pool that does not exist.
C15_MismatchRejected ==
    [][/\ \A input \in CreateInputs :
              (CategoryTypeMismatch(input) /\ ThrowsAtOnce(input)) =>
                  /\ ~response'.ok
                  /\ response'.error = <<"User with id", input.user_id,
                                         "does not exist">>
                  /\ transactions' = transactions
       /\ \A call \in BagToSet(creating) :
              (CategoryTypeMismatch(call.input) /\ CreateStatement(call)) =>
                  /\ transactions' = transactions
                  /\ creating' = Ended(call) =>
                         /\ ~response'.ok
                         /\ response'.error
                                = IF call.input.pool_id \subseteq DOMAIN pools
                                  THEN MismatchError(call.input)
                                  ELSE <<"Pool with id",
                                         ValueOf(call.input.pool_id),
                                         "does not exist">>]_vars

\* An income transaction refused for naming an expense category, the store
\* holding a transaction of that category.
C15_Witness ==
    /\ response.op = "createTransaction"
    /\ ~response.ok
    /\ response.error
           = <<"Category type", "expense", "does not match transaction type",
               "income">>
    /\ \E id \in DOMAIN transactions : transactions[id].category_id = Some(2)

\* The input names a user, a pool, a category (on an income, expense or
\* credit transaction) or a vendor (on a payment) that does not exist.
MissingReference(input) ==
    \/ input.user_id \notin users
    \/ \E p \in input.pool_id : p \notin DOMAIN pools
    \/ /\ input.type \in CategoryTypes
       /\ \E c \in input.category_id : c \notin DOMAIN categories
    \/ /\ input.type = "payment"
       /\ \E v \in input.vendor_id : v \notin DOMAIN vendors

\* C16: createTransaction ends by throwing when user_id names no user,
\* pool_id no pool, category_id (on an income, expense or credit transaction)
\* no category, or vendor_id (on a payment) no vendor; none of its statements
\* changes a table or the id sequence.
C16_MissingReferenceRejected ==
    [][/\ \A input \in CreateInputs :
              ThrowsAtOnce(input) =>
                  /\ ~response'.ok
                  /\ UNCHANGED <<tables, nextTxId>>
       /\ \A call \in BagToSet(creating) :
              (MissingReference(call.input) /\ CreateStatement(call)) =>
                  /\ UNCHANGED <<tables, nextTxId>>
                  /\ creating' = Ended(call) => ~response'.ok]_vars

\* A payment refused for its vendor, the store holding a transaction.
C16_Witness ==
    /\ response.op = "createTransaction"
    /\ ~response.ok
    /\ response.error = <<"Vendor with id", 9, "does not exist">>
    /\ transactions # << >>

\* The error updateTransaction throws for an id that is not stored.
NotFoundError(id) == <<"Transaction with id", id, "not found">>

\* C21: updateTransaction with an id that no stored transaction has fails with
\* the error 'Transaction with id <id> not found' and leaves every stored
\* transaction unchanged: the call ends at its select and issues no UPDATE.
C21_UpdateOfMissingId ==
    [][\A id \in TransactionIds, patch \in UpdatePatches :
          (id \notin DOMAIN transactions /\ UpdateSelectExisting(id, patch)) =>
              /\ response'.op = "updateTransaction"
              /\ ~response'.ok
              /\ response'.error = NotFoundError(id)
              /\ updating' = Idle
              /\ transactions' = transactions]_vars

\* An update refused for its id, the store holding another transaction.
C21_Witness ==
    /\ response.op = "updateTransaction"
    /\ ~response.ok
    /\ \E id \in TransactionIds \ DOMAIN transactions :
           response.error = NotFoundError(id)
    /\ transactions # << >>

\* The fields of a stored row that an update may be given.
UpdatableFields ==
    {"pool_id", "amount", "description", "category_id", "vendor_id",
     "associated_person", "transaction_date"}

\* The value a supplied field of the input is stored as.
StoredAs(patch, f) ==
    IF f = "amount" THEN ToNumeric(patch.amount) ELSE patch[f]

\* C22: a successful updateTransaction gives the target's supplied fields the
\* supplied values (null included), keeps its omitted fields, its user_id,
\* type and created_at, renews its updated_at, and leaves every other stored
\* transaction and the set of stored ids unchanged.
C22_UpdateFrame ==
    [][(UpdateStatement /\ response'.ok) =>
          LET id == updating.id
              patch == updating.patch
          IN  /\ DOMAIN transactions' = DOMAIN transactions
              /\ \A other \in DOMAIN transactions \ {id} :
                     transactions'[other] = transactions[other]
              /\ \A f \in UpdatableFields :
                     transactions'[id][f]
                         = IF f \in DOMAIN patch THEN StoredAs(patch, f)
                           ELSE transactions[id][f]
              /\ \A f \in {"user_id", "type", "created_at"} :
                     transactions'[id][f] = transactions[id][f]
              /\ transactions'[id].updated_at # transactions[id].updated_at
              /\ response'.value.id = id]_vars

\* The payment created with 3000, a pool and a vendor, after two successive
\* updates: the first supplied the amount 4000 and the description, the second
\* cleared the pool and the vendor and omitted the amount and the description,
\* which are still those of the first update; another transaction is stored
\* beside it.
C22_Witness ==
    /\ response.op = "updateTransaction"
    /\ response.ok
    /\ response.value.type = "payment"
    /\ response.value.pool_id = NULL
    /\ response.value.vendor_id = NULL
    /\ response.value.amount = Number(4000)
    /\ response.value.description = "edited"
    /\ transactions[response.value.id].updated_at = 2
    /\ response.value.id \in DOMAIN transactions
    /\ Cardinality(DOMAIN transactions) > 1

\* C23: deleteTransaction(id) returns true exactly when a transaction with
\* that id is stored; it removes that transaction and no other, and changes
\* nothing when no such transaction is stored, after which a deletion of the
\* same id finds nothing to remove.
C23_DeleteResult ==
    [][\A id \in TransactionIds :
          deleteTransaction(id) =>
              /\ response'.ok
              /\ response'.value = (id \in DOMAIN transactions)
              /\ DOMAIN transactions' = DOMAIN transactions \ {id}
              /\ \A other \in DOMAIN transactions \ {id} :
                     transactions'[other] = transactions[other]
              /\ id \notin DOMAIN transactions => transactions' = transactions
              /\ UNCHANGED <<catalog, nextTxId>>]_vars

\* A deletion that removed a transaction and left another one stored.
C23_Witness ==
    /\ response.op = "deleteTransaction"
    /\ response.ok
    /\ response.value = TRUE
    /\ transactions # << >>

\* The stored row meets every filter the query supplies.
MeetsFilters(row, query) ==
    /\ row.user_id = query.user_id
    /\ \A f \in DOMAIN query \cap {"pool_id", "category_id", "vendor_id"} :
           row[f] = Some(query[f])
    /\ "type" \in DOMAIN query => row.type = query.type
    /\ "start_date" \in DOMAIN query
           => ~Earlier(row.transaction_date, query.start_date)
    /\ "end_date" \in DOMAIN query
           => ~Earlier(query.end_date, row.transaction_date)

\* C24: getTransactions returns exactly the stored transactions of the user
\* that meet every supplied filter: type, pool_id, category_id and vendor_id
\* by equality, transaction_date within the inclusive bounds; an omitted
\* filter restricts nothing.
C24_TransactionsFilter ==
    (response.op = "getTransactions") =>
        /\ response.ok
        /\ {t.id : t \in response.value}
               = { id \in DOMAIN transactions :
                       MeetsFilters(transactions[id], response.query) }
        /\ \A t \in response.value :
               /\ t.amount = ParseFloat(transactions[t.id].amount)
               /\ \A f \in DOMAIN transactions[t.id] \ {"amount"} :
                      t[f] = transactions[t.id][f]

\* C25: a monthly report whose three queries ran among the writes of other
\* calls equals the report of one table that the store held during the call;
\* in particular the transaction counts of its category breakdown and of its
\* pool breakdown each sum to at most its transactionCount.
C25_SnapshotConsistency ==
    (response.op = "getMonthlyReport" /\ response.ok) =>
        /\ \E tx \in response.seen :
               response.value = MonthlyReport(tx, response.query)
        /\ SumOfCounts(response.value.categoryBreakdown)
               <= response.value.transactionCount
        /\ SumOfCounts(response.value.poolBreakdown)
               <= response.value.transactionCount

\* The error of an UPDATE that gives a reference an id that names no row.
ForeignKeyError == <<"violates foreign key constraint">>

\* C26: whatever deletion commits beside an updateTransaction(id), between its
\* existence check and its UPDATE included, the update returns the updated
\* row or fails with 'Transaction with id <id> not found'; it fails in no
\* other way, the refusal of a reference that names no row apart.
C26_UpdateBesideDelete ==
    ( /\ response.op = "updateTransaction"
      /\ ~response.ok
      /\ response.error # ForeignKeyError ) =>
        \E id \in TransactionIds : response.error = NotFoundError(id)

\* C27: every stored transaction's non-null category_id, pool_id and vendor_id
\* reference a category, pool or vendor of the transaction's own user.
C27_OwnershipIntegrity ==
    \A id \in DOMAIN transactions :
        LET row == transactions[id]
        IN  /\ \A c \in row.category_id :
                /\ c \in DOMAIN categories
                /\ categories[c].user_id = row.user_id
            /\ \A p \in row.pool_id :
                /\ p \in DOMAIN pools
                /\ pools[p].user_id = row.user_id
            /\ \A v \in row.vendor_id :
                /\ v \in DOMAIN vendors
                /\ vendors[v].user_id = row.user_id

\* The (categoryId, type, totalAmount, transactionCount) of the entries of a
\* breakdown.
BreakdownTuples(entries) ==
    { <<e.categoryId, e.type, e.totalAmount, e.transactionCount>> :
        e \in entries }

\* C28: for a month in 1..12 the categoryBreakdown of getMonthlyReport and the
\* categories of getCategoryReport from the first to the last instant of that
\* month hold the same (categoryId, type, totalAmount, transactionCount),
\* whatever the order in which the store returns the rows.
C28_ReportsAgree ==
    (IsMonthlyReport /\ response.query.month \in 1 .. 12) =>
        LET q == response.query
            range == [user_id |-> q.user_id,
                      start_date |-> FirstInstantOfMonth(q.year, q.month),
                      end_date |-> LastInstantOfMonth(q.year, q.month)]
        IN  \A ranged \in CategoryReports(transactions, range) :
                BreakdownTuples(response.value.categoryBreakdown)
                    = BreakdownTuples({ ranged.categories[i] :
                                          i \in DOMAIN ranged.categories })

RECURSIVE SumOfMonthlyTotals(_)
\* The totalAmount of the entries of a monthlyBreakdown added as JavaScript
\* numbers, in the order of the list.
SumOfMonthlyTotals(months) ==
    IF months = << >> THEN Number(0)
    ELSE Plus(SumOfMonthlyTotals(SubSeq(months, 1, Len(months) - 1)),
              months[Len(months)].totalAmount)

RECURSIVE SumOfMonthlyCounts(_)
SumOfMonthlyCounts(months) ==
    IF months = << >> THEN 0
    ELSE months[1].transactionCount + SumOfMonthlyCounts(Tail(months))

\* C29: in every entry of categories the totalAmount of the monthlyBreakdown
\* entries add up to the entry's totalAmount and their transactionCount to its
\* transactionCount; every monthlyBreakdown entry counts at least one
\* transaction and has its month in 1..12.
C29_MonthlyBreakdownSums ==
    (response.op = "getCategoryReport" /\ response.ok) =>
        \A i \in DOMAIN response.value.categories :
            LET e == response.value.categories[i]
            IN  /\ SumOfMonthlyTotals(e.monthlyBreakdown) = e.totalAmount
                /\ SumOfMonthlyCounts(e.monthlyBreakdown) = e.transactionCount
                /\ \A k \in DOMAIN e.monthlyBreakdown :
                       /\ e.monthlyBreakdown[k].transactionCount >= 1
                       /\ e.monthlyBreakdown[k].month \in 1 .. 12

\* ------------------------------------------------------------------------
\* Purity of the reports
\* ------------------------------------------------------------------------

\* The fields of a report whose entries come in the store's order.
BreakdownFields == {"categories", "categoryBreakdown", "poolBreakdown"}

\* The report with those fields as sets of entries.
Unordered(report) ==
    [f \in DOMAIN report |->
        IF f \in BreakdownFields
        THEN {report[f][i] : i \in DOMAIN report[f]}
        ELSE report[f]]

\* C20: a report is a function of the stored transactions and the query:
\* when a report call follows a call of the same report with the same query
\* and the stored transactions are the same, the two reports are equal up to
\* the order of their breakdown entries.
C20_ReportsArePure ==
    [][(/\ response.op \in ReportOps
        /\ response.ok
        /\ response'.op = response.op
        /\ response'.ok
        /\ response'.query = response.query
        /\ transactions' = transactions)
       => Unordered(response'.value) = Unordered(response.value)]_vars

====
